---- MODULE Spec2Model ----
(***************************************************************************)
(* Verification model of AIInterviewMaster.                                *)
(*                                                                         *)
(*   SpecServer : server/socket.ts, the interview session protocol.  Every *)
(*                inbound message starts an async handler; ws.on("message")*)
(*                does not wait for the promise of the previous handler,   *)
(*                so handlers interleave at their await points.            *)
(*   SpecFilter : server/elevenlabs.ts, generateNextQuestion's history     *)
(*                validation, a pure function of the history.              *)
(*   SpecAcquire: client/src/hooks/useWebRTC.ts, stream acquisition and    *)
(*                the recovery of ended tracks (first definition).         *)
(*   SpecToggle : client/src/hooks/useWebRTC.ts, the track toggles (both   *)
(*                definitions of the hook).                                *)
(*   SpecHealth : client/src/hooks/useWebRTC.ts, the health monitor, the   *)
(*                release of the devices and the unmount cleanup (first    *)
(*                definition).                                             *)
(*   SpecRec    : client/src/hooks/useWebRTC.ts, the recording controller  *)
(*                (first definition); SpecRec2: the second definition's.   *)
(*   SpecSource : client/src/hooks/useWebRTC.ts, the second definition     *)
(*                recording the stream it acquires and toggles.            *)
(*   SpecConn   : server/socket.ts, the protocol with sockets that close.  *)
(*   SpecClient : client/src/hooks/useWebRTC.ts, useAIInterview: the       *)
(*                WebSocket the client keeps and its reconnection.         *)
(*   SpecIndicator: the first definition's acquisition, recovery and       *)
(*                toggles together; SpecRecLive: SpecRec with its timer.   *)
(***************************************************************************)
EXTENDS Integers, Sequences, FiniteSets, Bags, TLC

VARIABLES
  \* ---- server/socket.ts ----
  activeSessions,   \* keys of the activeSessions Map
  sessionObj,       \* the InterviewSession objects, by session id
  nextSid,          \* next session id uuidv4() mints
  interviews,       \* storage: interview id -> "none" | "in_progress" | "completed"
  dbMessages,       \* storage: interview id -> senders of the persisted messages
  dbResults,        \* storage: interview ids with a persisted result
  handlers,         \* the async handlers in flight (their continuations)
  received,         \* number of inbound messages so far
  lastDone,         \* the handler that completed last, with what it sent
  conns,            \* the sockets that are open
  \* ---- server/elevenlabs.ts, generateNextQuestion ----
  fConversation,    \* the conversation argument
  fMessages,        \* validatedMessages, as given to the external generator
  fpc,              \* "idle" | "call" | "sent"
  \* ---- client/src/hooks/useWebRTC.ts, recording (first definition) ----
  recordingState,   \* React state: "inactive" | "recording" | "stopping"
  isUnmounting,     \* isUnmountingRef.current
  mimeType,         \* the MIME type MediaRecorder.isTypeSupported accepts, or ""
  mediaRecorderRef, \* mediaRecorderRef.current: a recorder, or none (null)
  abandoned,        \* the recorders no longer referenced that can still act
  recordedChunks,   \* recordedChunksRef.current
  nextChunk,        \* the next chunk a recorder delivers
  recordingCheckInterval, \* recordingCheckIntervalRef: "none", or the
                    \* recordingState its callback captured
  stopCall,         \* the promise of the last stopRecording() call
  \* ---- client/src/hooks/useWebRTC.ts, the media stream (both definitions) ----
  impl,             \* 1: the first definition of the hook, 2: the second
  browserSupport,   \* what checkBrowserSupport() returns
  tracks,           \* the MediaStreamTracks: readyState live?, enabled?
  streams,          \* the MediaStream objects: the tracks each holds
  nextStream,       \* the next MediaStream to be created
  localStream,      \* React state localStream: a stream, or 0 (null)
  streamRef,        \* streamRef.current
  srcObject,        \* localVideoRef.current.srcObject
  isInitializing,   \* React state isInitializing
  isMicMuted,       \* React state isMicMuted
  isCameraOff,      \* React state isCameraOff
  calls,            \* the getUserMedia requests in flight and who awaits them
  lastCall,         \* the acquisition call that completed last
  endedTimers,      \* the tracks whose 300 ms recovery timer is pending
  \* ---- client/src/hooks/useWebRTC.ts, health monitor (first definition) ----
  cloneEnded,       \* the tracks whose copy in the backup clone has ended
  healthTimers,     \* the streams a pending 1 s recovery callback captured
  \* ---- client/src/hooks/useWebRTC.ts, recording (second definition) ----
  recorderSource,   \* the stream given to new MediaRecorder and the tracks it
                    \* held then (the first definition gives a clone of its own)
  \* ---- client/src/hooks/useWebRTC.ts, useAIInterview ----
  sockets,          \* readyState of each WebSocket the hook created
  socketRef,        \* socketRef.current: a socket, or 0 (null)
  interviewActiveRef, \* interviewActiveRef.current
  reconnectTimers,  \* pending 3 s reconnect timers
  hookUnmounted     \* the cleanup of the hook's effect ran

serverVars == <<activeSessions, sessionObj, nextSid, interviews, dbMessages,
                dbResults, handlers, received, lastDone, conns>>

filterVars == <<fConversation, fMessages, fpc>>

recVars == <<recordingState, isUnmounting, mimeType, mediaRecorderRef, abandoned,
             recordedChunks, nextChunk, recordingCheckInterval, stopCall>>

mediaVars == <<impl, browserSupport, tracks, streams, nextStream, localStream,
               streamRef, srcObject, isInitializing, isMicMuted, isCameraOff, calls,
               lastCall, endedTimers>>

healthVars == <<cloneEnded, healthTimers>>

sourceVars == <<recorderSource>>

clientVars == <<sockets, socketRef, interviewActiveRef, reconnectTimers, hookUnmounted>>

vars == <<serverVars, filterVars, recVars, mediaVars, healthVars, sourceVars, clientVars>>

\* What the steps of one part leave alone: the other parts.
ServerFrame ==
  UNCHANGED <<conns, filterVars, recVars, mediaVars, healthVars, sourceVars, clientVars>>
FilterFrame == UNCHANGED <<serverVars, recVars, mediaVars, healthVars, sourceVars, clientVars>>
RecFrame == UNCHANGED <<serverVars, filterVars, mediaVars, healthVars, sourceVars, clientVars>>
MediaFrame == UNCHANGED <<serverVars, filterVars, recVars, healthVars, sourceVars, clientVars>>
HealthFrame == UNCHANGED <<serverVars, filterVars, sourceVars, clientVars>>
ClientFrame ==
  UNCHANGED <<serverVars, filterVars, recVars, mediaVars, healthVars, sourceVars>>

----------------------------------------------------------------------------
\* Bounds of the model.
MaxInbound == 3
MaxSessions == 2

\* Every interview record is created for a session or named by a client.
Conns == {"c1", "c2"}
Sids == 1..MaxSessions
Iids == 1..MaxSessions
Hids == 1..MaxInbound

NoSession == [interviewId |-> 0, isPaused |-> FALSE, conversation |-> <<>>]
NoHandler == [kind |-> "none", conn |-> "none", sid |-> 0, iid |-> 0, pc |-> "idle",
              gen |-> "none", sent |-> <<>>]

\* ws.send(JSON.stringify({type, ...})): x is the payload that matters (the
\* error text, isTyping, the session id).
Reply(t, x) == [type |-> t, x |-> x]

\* sendTypingIndicator(ws, isTyping)
sendTypingIndicator(isTyping) == Reply("TYPING_INDICATOR", isTyping)

\* The slot a new handler takes: the lowest free one.
FreeSlot == CHOOSE h \in Hids : handlers[h].pc = "idle" /\
                                \A j \in Hids : j < h => handlers[j].pc # "idle"

NewHandler(kind, c, sid, iid, pc, sent) ==
  [kind |-> kind, conn |-> c, sid |-> sid, iid |-> iid, pc |-> pc, gen |-> "none",
   sent |-> sent]

\* A message arrives and its handler runs to its first await (pc) or to its end.
Arrive(hd) ==
  /\ received < MaxInbound
  /\ hd.conn \in conns
  /\ received' = received + 1
  /\ IF hd.pc = "done"
       THEN lastDone' = hd /\ UNCHANGED handlers
       ELSE handlers' = [handlers EXCEPT ![FreeSlot] = hd] /\ UNCHANGED lastDone

\* The handler in slot h goes on to its next await, having sent msgs.
Goto(h, pc, msgs) ==
  /\ handlers' = [handlers EXCEPT ![h].pc = pc, ![h].sent = @ \o msgs]
  /\ UNCHANGED lastDone

\* The handler in slot h returns, having sent msgs.
Finish(h, msgs) ==
  /\ lastDone' = [handlers[h] EXCEPT !.pc = "done", !.sent = @ \o msgs]
  /\ handlers' = [handlers EXCEPT ![h] = NoHandler]

\* session.conversation.push(turn); activeSessions.set(sessionId, session).
\* session is the object the handler looked up (or created) before its awaits.
PushTurn(sid, content) ==
  /\ sessionObj' = [sessionObj EXCEPT ![sid].conversation = Append(@, content)]
  /\ activeSessions' = activeSessions \cup {sid}

\* storage.createMessage({interviewId, sender, content})
createMessage(iid, sender) ==
  [dbMessages EXCEPT ![iid] = Append(@, sender)]

----------------------------------------------------------------------------
ServerInit ==
  /\ activeSessions = {}
  /\ sessionObj = [s \in Sids |-> NoSession]
  /\ nextSid = 1
  /\ interviews = [i \in Iids |-> "none"]
  /\ dbMessages = [i \in Iids |-> <<>>]
  /\ dbResults = {}
  /\ handlers = [h \in Hids |-> NoHandler]
  /\ received = 0
  /\ lastDone = NoHandler
  /\ conns = {"c1"}

\* The server with every client connected.
ConnInit ==
  /\ activeSessions = {}
  /\ sessionObj = [s \in Sids |-> NoSession]
  /\ nextSid = 1
  /\ interviews = [i \in Iids |-> "none"]
  /\ dbMessages = [i \in Iids |-> <<>>]
  /\ dbResults = {}
  /\ handlers = [h \in Hids |-> NoHandler]
  /\ received = 0
  /\ lastDone = NoHandler
  /\ conns = Conns

\* A variant of ConnClose that drops the sessions with the socket.
ConnClose_DropsSessions(c) ==
  /\ c \in conns
  /\ conns' = conns \ {c}
  /\ activeSessions' = {}
  /\ UNCHANGED <<sessionObj, nextSid, interviews, dbMessages, dbResults,
                 handlers, received, lastDone>>
  /\ UNCHANGED <<filterVars, recVars, mediaVars, healthVars, sourceVars, clientVars>>

\* The socket closes (or fails and closes): both handlers only log.  No
\* message arrives on it any more; the handlers in flight go on.
ConnClose(c) ==
  /\ c \in conns
  /\ conns' = conns \ {c}
  /\ UNCHANGED <<activeSessions, sessionObj, nextSid, interviews, dbMessages, dbResults,
                 handlers, received, lastDone>>
  /\ UNCHANGED <<filterVars, recVars, mediaVars, healthVars, sourceVars, clientVars>>

\* JSON.parse throws: the outer catch replies "Failed to process message".
RecvMalformed(c) ==
  /\ Arrive(NewHandler("MALFORMED", c, 0, 0, "done",
                       <<Reply("ERROR", "Failed to process message")>>))
  /\ UNCHANGED <<activeSessions, sessionObj, nextSid, interviews, dbMessages, dbResults>>
  /\ ServerFrame

\* data.type of a message that names none of the five operations: absent, a
\* falsy value ("" or 0 or null), a string, or a truthy value that is no
\* string (a number, true, an object).
OtherTypes == {"undefined", "falsy", "string", "number"}

\* const messageType = data.type ? data.type.toUpperCase() : '' and the
\* switch: an absent or falsy type gives '' and a string its upper case, both
\* taken by the default branch; a truthy non-string has no toUpperCase, the
\* TypeError is caught by the outer catch.
UnknownReply(ty) ==
  IF ty \in {"undefined", "falsy", "string"}
    THEN Reply("ERROR", "Unknown message type")
    ELSE Reply("ERROR", "Failed to process message")

\* A message of another type arrives.
RecvUnknown(c, ty) ==
  /\ Arrive(NewHandler("UNKNOWN", c, 0, 0, "done", <<UnknownReply(ty)>>))
  /\ UNCHANGED <<activeSessions, sessionObj, nextSid, interviews, dbMessages, dbResults>>
  /\ ServerFrame

\* handleStartInterview up to "await storage.getInterview": the session is
\* minted and stored and SESSION_CREATED is sent before the interview is read.
StartSessionSync(iid) ==
  /\ nextSid <= MaxSessions
  /\ sessionObj' = [sessionObj EXCEPT ![nextSid] =
                      [interviewId |-> iid, isPaused |-> FALSE, conversation |-> <<>>]]
  /\ activeSessions' = activeSessions \cup {nextSid}
  /\ nextSid' = nextSid + 1

\* START_INTERVIEW with interviewId 0 (or missing): await storage.createInterview.
RecvStartNew(c) ==
  /\ Arrive(NewHandler("START", c, 0, 0, "st_createInterview", <<>>))
  /\ UNCHANGED <<activeSessions, sessionObj, nextSid, interviews, dbMessages, dbResults>>
  /\ ServerFrame

\* START_INTERVIEW naming an interview id: handleStartInterview at once.
RecvStartExisting(c, iid) ==
  /\ StartSessionSync(iid)
  /\ Arrive(NewHandler("START", c, nextSid, iid, "st_getInterview",
                       <<Reply("SESSION_CREATED", nextSid)>>))
  /\ UNCHANGED <<interviews, dbMessages, dbResults>>
  /\ ServerFrame

\* storage.createInterview resolves: handleStartInterview(ws, newInterview.id).
StartCreateInterviewOk(h) ==
  /\ handlers[h].pc = "st_createInterview"
  /\ \E iid \in Iids :
       /\ interviews[iid] = "none"
       /\ \A j \in Iids : j < iid => interviews[j] # "none"
       /\ interviews' = [interviews EXCEPT ![iid] = "in_progress"]
       /\ StartSessionSync(iid)
       /\ handlers' = [handlers EXCEPT ![h].pc = "st_getInterview",
                                       ![h].sid = nextSid, ![h].iid = iid,
                                       ![h].sent = @ \o <<Reply("SESSION_CREATED", nextSid)>>]
  /\ UNCHANGED <<dbMessages, dbResults, received, lastDone>>
  /\ ServerFrame

\* storage.createInterview rejects: "Failed to create interview".
StartCreateInterviewFail(h) ==
  /\ handlers[h].pc = "st_createInterview"
  /\ Finish(h, <<Reply("ERROR", "Failed to create interview")>>)
  /\ UNCHANGED <<activeSessions, sessionObj, nextSid, interviews, dbMessages,
                 dbResults, received>>
  /\ ServerFrame

\* storage.getInterview resolves: not found throws ("Failed to start
\* interview"), found schedules the welcome message with setTimeout(1000).
StartGetInterview(h) ==
  /\ handlers[h].pc = "st_getInterview"
  /\ IF interviews[handlers[h].iid] = "none"
       THEN Finish(h, <<Reply("ERROR", "Failed to start interview")>>)
       ELSE Goto(h, "st_timer", <<>>)
  /\ UNCHANGED <<activeSessions, sessionObj, nextSid, interviews, dbMessages,
                 dbResults, received>>
  /\ ServerFrame

\* The welcome timer fires: typing on, typing off, AI_MESSAGE, then
\* await storage.createMessage.
WelcomeTimer(h) ==
  /\ handlers[h].pc = "st_timer"
  /\ Goto(h, "st_createMessage",
          <<sendTypingIndicator(TRUE), sendTypingIndicator(FALSE),
            Reply("AI_MESSAGE", "welcome")>>)
  /\ UNCHANGED <<activeSessions, sessionObj, nextSid, interviews, dbMessages,
                 dbResults, received>>
  /\ ServerFrame

\* The welcome turn is persisted: it is pushed on the session object the
\* timer closure holds and the object is set in the Map again.
WelcomePersistOk(h) ==
  /\ handlers[h].pc = "st_createMessage"
  /\ dbMessages' = createMessage(handlers[h].iid, "ai")
  /\ PushTurn(handlers[h].sid, "welcome")
  /\ Finish(h, <<>>)
  /\ UNCHANGED <<nextSid, interviews, dbResults, received>>
  /\ ServerFrame

\* storage.createMessage rejects in the timer: logged only.
WelcomePersistFail(h) ==
  /\ handlers[h].pc = "st_createMessage"
  /\ Finish(h, <<>>)
  /\ UNCHANGED <<activeSessions, sessionObj, nextSid, interviews, dbMessages,
                 dbResults, received>>
  /\ ServerFrame

----------------------------------------------------------------------------
\* Mutant of RecvUserMessage: the isPaused test is missing.
RecvUserMessage_NoPauseCheck(c, sid) ==
  /\ Arrive(IF sid \notin activeSessions
              THEN NewHandler("USER", c, sid, 0, "done",
                              <<Reply("ERROR", "Failed to process message")>>)
            ELSE NewHandler("USER", c, sid, sessionObj[sid].interviewId,
                            "um_createMessage", <<>>))
  /\ UNCHANGED <<activeSessions, sessionObj, nextSid, interviews, dbMessages, dbResults>>
  /\ ServerFrame

\* handleUserMessage up to "await storage.createMessage": an unknown session
\* throws into the outer catch, a paused session is answered with an error
\* and the handler returns.
RecvUserMessage(c, sid) ==
  /\ Arrive(IF sid \notin activeSessions
              THEN NewHandler("USER", c, sid, 0, "done",
                              <<Reply("ERROR", "Failed to process message")>>)
            ELSE IF sessionObj[sid].isPaused
              THEN NewHandler("USER", c, sid, 0, "done",
                              <<Reply("ERROR", "Interview is paused")>>)
            ELSE NewHandler("USER", c, sid, sessionObj[sid].interviewId,
                            "um_createMessage", <<>>))
  /\ UNCHANGED <<activeSessions, sessionObj, nextSid, interviews, dbMessages, dbResults>>
  /\ ServerFrame

\* The user turn is persisted: push it, set the session, await getInterview.
UserPersistOk(h) ==
  /\ handlers[h].pc = "um_createMessage"
  /\ dbMessages' = createMessage(handlers[h].iid, "user")
  /\ PushTurn(handlers[h].sid, "user")
  /\ Goto(h, "um_getInterview", <<>>)
  /\ UNCHANGED <<nextSid, interviews, dbResults, received>>
  /\ ServerFrame

\* A variant that pushes the user turn although the write was rejected.
UserPersistFail_PushesTurn(h) ==
  /\ handlers[h].pc = "um_createMessage"
  /\ PushTurn(handlers[h].sid, "user")
  /\ Finish(h, <<Reply("ERROR", "Failed to process message")>>)
  /\ UNCHANGED <<nextSid, interviews, dbMessages, dbResults, received>>
  /\ ServerFrame

\* storage.createMessage rejects: outer catch, "Failed to process message".
UserPersistFail(h) ==
  /\ handlers[h].pc = "um_createMessage"
  /\ Finish(h, <<Reply("ERROR", "Failed to process message")>>)
  /\ UNCHANGED <<activeSessions, sessionObj, nextSid, interviews, dbMessages,
                 dbResults, received>>
  /\ ServerFrame

\* storage.getInterview resolves: not found throws into the outer catch,
\* found sends typing on and awaits generateNextQuestion.
UserGetInterview(h) ==
  /\ handlers[h].pc = "um_getInterview"
  /\ IF interviews[handlers[h].iid] = "none"
       THEN Finish(h, <<Reply("ERROR", "Failed to process message")>>)
       ELSE Goto(h, "um_generate", <<sendTypingIndicator(TRUE)>>)
  /\ UNCHANGED <<activeSessions, sessionObj, nextSid, interviews, dbMessages,
                 dbResults, received>>
  /\ ServerFrame

\* A variant of UserGenerateOk that drops the result of the call when the
\* session has been paused meanwhile.
UserGenerateOk_DropsWhenPaused(h) ==
  /\ handlers[h].pc = "um_generate"
  /\ IF sessionObj[handlers[h].sid].isPaused
       THEN Finish(h, <<sendTypingIndicator(FALSE)>>)
       ELSE /\ handlers' = [handlers EXCEPT ![h].pc = "um_createAI", ![h].gen = "ok",
                  ![h].sent = @ \o <<sendTypingIndicator(FALSE),
                                     Reply("AI_MESSAGE", "question")>>]
            /\ UNCHANGED lastDone
  /\ UNCHANGED <<activeSessions, sessionObj, nextSid, interviews, dbMessages,
                 dbResults, received>>
  /\ ServerFrame

\* generateNextQuestion resolves: typing off, AI_MESSAGE, await createMessage.
UserGenerateOk(h) ==
  /\ handlers[h].pc = "um_generate"
  /\ handlers' = [handlers EXCEPT ![h].pc = "um_createAI", ![h].gen = "ok",
        ![h].sent = @ \o <<sendTypingIndicator(FALSE), Reply("AI_MESSAGE", "question")>>]
  /\ UNCHANGED <<activeSessions, sessionObj, nextSid, interviews, dbMessages,
                 dbResults, received, lastDone>>
  /\ ServerFrame

\* generateNextQuestion rejects (its catch rethrows every failure of the
\* call): the inner catch replies "Failed to generate response".
UserGenerateFail(h) ==
  /\ handlers[h].pc = "um_generate"
  /\ lastDone' = [handlers[h] EXCEPT !.pc = "done", !.gen = "fail",
        !.sent = @ \o <<Reply("ERROR", "Failed to generate response")>>]
  /\ handlers' = [handlers EXCEPT ![h] = NoHandler]
  /\ UNCHANGED <<activeSessions, sessionObj, nextSid, interviews, dbMessages,
                 dbResults, received>>
  /\ ServerFrame

\* The assistant turn is persisted: push it and set the session.
UserPersistAIOk(h) ==
  /\ handlers[h].pc = "um_createAI"
  /\ dbMessages' = createMessage(handlers[h].iid, "ai")
  /\ PushTurn(handlers[h].sid, "question")
  /\ Finish(h, <<>>)
  /\ UNCHANGED <<nextSid, interviews, dbResults, received>>
  /\ ServerFrame

\* storage.createMessage rejects inside the inner try: the inner catch
\* replies "Failed to generate response".
UserPersistAIFail(h) ==
  /\ handlers[h].pc = "um_createAI"
  /\ Finish(h, <<Reply("ERROR", "Failed to generate response")>>)
  /\ UNCHANGED <<activeSessions, sessionObj, nextSid, interviews, dbMessages,
                 dbResults, received>>
  /\ ServerFrame

\* A variant of RecvPause that sets the flag without looking the session up.
RecvPause_NoLookup(c, sid) ==
  /\ Arrive(NewHandler("PAUSE", c, sid, 0, "done",
                       IF sid \in activeSessions
                         THEN <<Reply("INTERVIEW_PAUSED", "")>>
                         ELSE <<Reply("ERROR", "Failed to pause interview")>>))
  /\ sessionObj' = [sessionObj EXCEPT ![sid].isPaused = TRUE]
  /\ UNCHANGED <<activeSessions, nextSid, interviews, dbMessages, dbResults>>
  /\ ServerFrame

\* handlePauseInterview: no await, one step.  An unknown session throws into
\* the catch.
RecvPause(c, sid) ==
  /\ Arrive(NewHandler("PAUSE", c, sid, 0, "done",
                       IF sid \in activeSessions
                         THEN <<Reply("INTERVIEW_PAUSED", "")>>
                         ELSE <<Reply("ERROR", "Failed to pause interview")>>))
  /\ sessionObj' = IF sid \in activeSessions
                     THEN [sessionObj EXCEPT ![sid].isPaused = TRUE]
                     ELSE sessionObj
  /\ UNCHANGED <<activeSessions, nextSid, interviews, dbMessages, dbResults>>
  /\ ServerFrame

\* A variant of RecvResume that also empties the conversation.
RecvResume_ClearsConversation(c, sid) ==
  /\ Arrive(NewHandler("RESUME", c, sid, 0, "done",
                       IF sid \in activeSessions
                         THEN <<Reply("INTERVIEW_RESUMED", "")>>
                         ELSE <<Reply("ERROR", "Failed to resume interview")>>))
  /\ sessionObj' = IF sid \in activeSessions
                     THEN [sessionObj EXCEPT ![sid].isPaused = FALSE,
                                             ![sid].conversation = <<>>]
                     ELSE sessionObj
  /\ UNCHANGED <<activeSessions, nextSid, interviews, dbMessages, dbResults>>
  /\ ServerFrame

\* handleResumeInterview: no await, one step.
RecvResume(c, sid) ==
  /\ Arrive(NewHandler("RESUME", c, sid, 0, "done",
                       IF sid \in activeSessions
                         THEN <<Reply("INTERVIEW_RESUMED", "")>>
                         ELSE <<Reply("ERROR", "Failed to resume interview")>>))
  /\ sessionObj' = IF sid \in activeSessions
                     THEN [sessionObj EXCEPT ![sid].isPaused = FALSE]
                     ELSE sessionObj
  /\ UNCHANGED <<activeSessions, nextSid, interviews, dbMessages, dbResults>>
  /\ ServerFrame

\* handleEndInterview up to "await storage.getMessagesByInterviewId".
RecvEnd(c, sid) ==
  /\ Arrive(IF sid \notin activeSessions
              THEN NewHandler("END", c, sid, 0, "done",
                              <<Reply("ERROR", "Failed to end interview")>>)
              ELSE NewHandler("END", c, sid, sessionObj[sid].interviewId,
                              "end_getMessages", <<>>))
  /\ UNCHANGED <<activeSessions, sessionObj, nextSid, interviews, dbMessages, dbResults>>
  /\ ServerFrame

\* A variant of EndFail that drops the session on failure.
EndFail_DeletesSession(h) ==
  /\ handlers[h].pc \in {"end_getMessages", "end_generateResults",
                         "end_createResult", "end_updateStatus"}
  /\ lastDone' = [handlers[h] EXCEPT
        !.pc = "done",
        !.gen = IF handlers[h].pc = "end_generateResults" THEN "fail" ELSE @,
        !.sent = @ \o <<Reply("ERROR", "Failed to end interview")>>]
  /\ handlers' = [handlers EXCEPT ![h] = NoHandler]
  /\ activeSessions' = activeSessions \ {handlers[h].sid}
  /\ UNCHANGED <<sessionObj, nextSid, interviews, dbMessages, dbResults, received>>
  /\ ServerFrame

\* An awaited call of handleEndInterview rejects: the catch replies
\* "Failed to end interview".  gen records whether it was
\* generateInterviewResults that rejected.
EndFail(h) ==
  /\ handlers[h].pc \in {"end_getMessages", "end_generateResults",
                         "end_createResult", "end_updateStatus"}
  /\ lastDone' = [handlers[h] EXCEPT
        !.pc = "done",
        !.gen = IF handlers[h].pc = "end_generateResults" THEN "fail" ELSE @,
        !.sent = @ \o <<Reply("ERROR", "Failed to end interview")>>]
  /\ handlers' = [handlers EXCEPT ![h] = NoHandler]
  /\ UNCHANGED <<activeSessions, sessionObj, nextSid, interviews, dbMessages,
                 dbResults, received>>
  /\ ServerFrame

EndGetMessages(h) ==
  /\ handlers[h].pc = "end_getMessages"
  /\ Goto(h, "end_getInterview", <<>>)
  /\ UNCHANGED <<activeSessions, sessionObj, nextSid, interviews, dbMessages,
                 dbResults, received>>
  /\ ServerFrame

EndGetInterview(h) ==
  /\ handlers[h].pc = "end_getInterview"
  /\ IF interviews[handlers[h].iid] = "none"
       THEN Finish(h, <<Reply("ERROR", "Failed to end interview")>>)
       ELSE Goto(h, "end_generateResults", <<>>)
  /\ UNCHANGED <<activeSessions, sessionObj, nextSid, interviews, dbMessages,
                 dbResults, received>>
  /\ ServerFrame

EndGenerateResults(h) ==
  /\ handlers[h].pc = "end_generateResults"
  /\ Goto(h, "end_createResult", <<>>)
  /\ UNCHANGED <<activeSessions, sessionObj, nextSid, interviews, dbMessages,
                 dbResults, received>>
  /\ ServerFrame

\* A variant of EndCreateResult that removes the session as soon as the
\* evaluation is persisted.
EndCreateResult_DeletesEarly(h) ==
  /\ handlers[h].pc = "end_createResult"
  /\ dbResults' = dbResults \cup {handlers[h].iid}
  /\ activeSessions' = activeSessions \ {handlers[h].sid}
  /\ Goto(h, "end_updateStatus", <<>>)
  /\ UNCHANGED <<sessionObj, nextSid, interviews, dbMessages, received>>
  /\ ServerFrame

\* storage.createResult resolves.
EndCreateResult(h) ==
  /\ handlers[h].pc = "end_createResult"
  /\ dbResults' = dbResults \cup {handlers[h].iid}
  /\ Goto(h, "end_updateStatus", <<>>)
  /\ UNCHANGED <<activeSessions, sessionObj, nextSid, interviews, dbMessages, received>>
  /\ ServerFrame

\* updateInterviewStatus resolves: activeSessions.delete, INTERVIEW_ENDED.
EndUpdateStatus(h) ==
  /\ handlers[h].pc = "end_updateStatus"
  /\ interviews' = [interviews EXCEPT ![handlers[h].iid] = "completed"]
  /\ activeSessions' = activeSessions \ {handlers[h].sid}
  /\ Finish(h, <<Reply("INTERVIEW_ENDED", "Interview completed successfully")>>)
  /\ UNCHANGED <<sessionObj, nextSid, dbMessages, dbResults, received>>
  /\ ServerFrame

ServerNext ==
  \/ \E c \in Conns : RecvMalformed(c)
  \/ \E c \in Conns, ty \in OtherTypes : RecvUnknown(c, ty)
  \/ \E c \in Conns : RecvStartNew(c)
  \/ \E c \in Conns, iid \in Iids : RecvStartExisting(c, iid)
  \/ \E c \in Conns, sid \in Sids : RecvUserMessage(c, sid)
  \/ \E c \in Conns, sid \in Sids : RecvPause(c, sid)
  \/ \E c \in Conns, sid \in Sids : RecvResume(c, sid)
  \/ \E c \in Conns, sid \in Sids : RecvEnd(c, sid)
  \/ \E h \in Hids : StartCreateInterviewOk(h)
  \/ \E h \in Hids : StartCreateInterviewFail(h)
  \/ \E h \in Hids : StartGetInterview(h)
  \/ \E h \in Hids : WelcomeTimer(h)
  \/ \E h \in Hids : WelcomePersistOk(h)
  \/ \E h \in Hids : WelcomePersistFail(h)
  \/ \E h \in Hids : UserPersistOk(h)
  \/ \E h \in Hids : UserPersistFail(h)
  \/ \E h \in Hids : UserGetInterview(h)
  \/ \E h \in Hids : UserGenerateOk(h)
  \/ \E h \in Hids : UserGenerateFail(h)
  \/ \E h \in Hids : UserPersistAIOk(h)
  \/ \E h \in Hids : UserPersistAIFail(h)
  \/ \E h \in Hids : EndFail(h)
  \/ \E h \in Hids : EndGetMessages(h)
  \/ \E h \in Hids : EndGetInterview(h)
  \/ \E h \in Hids : EndGenerateResults(h)
  \/ \E h \in Hids : EndCreateResult(h)
  \/ \E h \in Hids : EndUpdateStatus(h)

\* Two clients, whose sockets may close.
ConnNext ==
  \/ ServerNext
  \/ \E c \in Conns : ConnClose(c)



----------------------------------------------------------------------------
\* server/elevenlabs.ts, generateNextQuestion: the history validation.
\*
\* A JavaScript value is [t |-> its type, v |-> the characters String(value)
\* yields]; a string is its own characters.
MaxHistory == 2

Chars(str) == [t |-> "string", v |-> str]
JsUndefined == [t |-> "undefined", v |-> <<"u", "n", "d">>]
JsNull == [t |-> "null", v |-> <<"n", "u", "l", "l">>]
JsZero == [t |-> "number", v |-> <<"0">>]
JsSeven == [t |-> "number", v |-> <<"7">>]
JsFalse == [t |-> "boolean", v |-> <<"f", "a", "l", "s", "e">>]
JsTrue == [t |-> "boolean", v |-> <<"t", "r", "u", "e">>]

Contents == {JsUndefined, JsNull, JsZero, JsSeven, JsFalse,
             Chars(<<>>), Chars(<<" ">>), Chars(<<"h", "i">>), Chars(<<" ", "a", " ">>)}
Roles == {Chars(<<"user">>), Chars(<<"assistant">>)}

\* A conversation entry as socket.ts pushes it: {role, content}, with the
\* content of a user turn any JSON value the client sent; it has no text and
\* no sender.  (null stands for an entry that is itself null.)
NullTurn == [role |-> JsNull, sender |-> JsNull, content |-> JsNull, text |-> JsNull]
Turns == [role : Roles, sender : {JsUndefined}, content : Contents, text : {JsUndefined}]

IsNullish(x) == x.t \in {"undefined", "null"}

\* JavaScript truthiness.
Truthy(x) ==
  CASE x.t = "string" -> x.v # <<>>
    [] x.t = "number" -> x.v # <<"0">>
    [] x.t = "boolean" -> x = JsTrue
    [] OTHER -> FALSE

\* a || b
Or(a, b) == IF Truthy(a) THEN a ELSE b

\* String(x)
String(x) == Chars(x.v)

\* str.trim(): white space is dropped at both ends.
RECURSIVE TrimLeft(_)
TrimLeft(str) ==
  IF str # <<>> /\ Head(str) = " " THEN TrimLeft(Tail(str)) ELSE str

RECURSIVE TrimRight(_)
TrimRight(str) ==
  IF str # <<>> /\ str[Len(str)] = " "
    THEN TrimRight(SubSeq(str, 1, Len(str) - 1)) ELSE str

Trim(str) == TrimRight(TrimLeft(str))

\* The two messages every call starts with: the system prompt and
\* "Job Description: ...".
Preamble == << [role |-> Chars(<<"system">>), content |-> Chars(<<"p">>)],
               [role |-> Chars(<<"user">>), content |-> Chars(<<"j">>)] >>

\* conversation.forEach(message => ...): what one entry adds to messages.
HistoryMessage(message) ==
  IF message = NullTurn \/ IsNullish(message.content)
    THEN <<>>
    ELSE LET role == Or(message.role, IF message.sender = Chars(<<"ai">>)
                                        THEN Chars(<<"assistant">>)
                                        ELSE Chars(<<"user">>))
             content == Or(Or(message.content, message.text), Chars(<<>>))
         IN  IF IsNullish(content) THEN <<>>
             ELSE << [role |-> role, content |-> String(content)] >>

RECURSIVE HistoryMessages(_)
HistoryMessages(conversation) ==
  IF conversation = <<>> THEN <<>>
  ELSE HistoryMessage(Head(conversation)) \o HistoryMessages(Tail(conversation))

\* messages.filter(msg => msg && typeof msg.content === 'string' &&
\*                        msg.content.trim() !== '')
IsValidMessage(msg) == msg.content.t = "string" /\ Trim(msg.content.v) # <<>>

validatedMessages(conversation) ==
  SelectSeq(Preamble \o HistoryMessages(conversation), IsValidMessage)

FilterIdle ==
  /\ fConversation = <<>>
  /\ fMessages = <<>>
  /\ fpc = "idle"

FilterInit ==
  /\ fConversation \in UNION {[1..n -> Turns] : n \in 0..MaxHistory}
  /\ fMessages = <<>>
  /\ fpc = "call"

\* generateNextQuestion(interview, conversation) up to the call of the
\* external generator.
generateNextQuestion ==
  /\ fpc = "call"
  /\ fMessages' = validatedMessages(fConversation)
  /\ fpc' = "sent"
  /\ UNCHANGED fConversation
  /\ FilterFrame

FilterNext == generateNextQuestion


----------------------------------------------------------------------------
\* client/src/hooks/useWebRTC.ts (first definition): the recording controller.
\*
\* startRecording and the handlers it installs are closures of one render of
\* the hook: the recordingState they test is the value of that render, not
\* the current one.  A call by the component uses the latest render.  The
\* stream to record is taken as acquired (localStream is set).
\*
\* A MediaRecorder that stops (stop(), or by itself) becomes inactive at once
\* and fires its events from one task: error (if it failed), dataavailable
\* with the data gathered last, then stop.
\*
\* startRecording replaces mediaRecorderRef.current without stopping the
\* recorder it held: that recorder keeps recording and its handlers keep
\* firing.  Recorders no longer referenced have no identity the hook could
\* tell apart; they are kept as a bag.
MaxRecorders == 2
MaxChunks == 2

RecordingStates == {"inactive", "recording", "stopping"}

\* A MediaRecorder: its state, the recordingState its handlers captured, its
\* onstop handler ("restart": startRecording's; "resolve": that of the
\* stopRecording call whose promise is stopCall; "resolveOld": that of an
\* earlier stopRecording call), the tasks it has queued (the start event, the
\* dataavailable of requestData(), the stop task) and the restart timers its
\* handlers have set.
NoRecorder == [state |-> "unused", capRS |-> "inactive", onstop |-> "restart",
               startPending |-> FALSE, dataPending |-> FALSE, stopPending |-> "none",
               restartTimer |-> FALSE, errorTimer |-> FALSE]

NewRecorder(cap) ==
  [NoRecorder EXCEPT !.state = "recording", !.capRS = cap, !.startPending = TRUE]

\* A recorder that is inactive with no task queued and no timer set can do
\* nothing more: all that is kept of it is that it is inactive.
SpentRecorder == [NoRecorder EXCEPT !.state = "inactive"]

Spent(rec) ==
  IF rec.state = "inactive" /\ ~rec.startPending /\ ~rec.dataPending
     /\ rec.stopPending = "none" /\ ~rec.restartTimer /\ ~rec.errorTimer
    THEN SpentRecorder
    ELSE rec

\* The bag of one recorder that can still act, the empty bag otherwise.
Kept(rec) ==
  IF Spent(rec) \in {NoRecorder, SpentRecorder} THEN EmptyBag ELSE SetToBag({rec})

\* The recorders as the hook holds them: the one mediaRecorderRef refers to
\* and the abandoned ones.
Held == [cur |-> mediaRecorderRef, abd |-> abandoned]

\* A recorder that may act in a step: the current one or an abandoned one.
Acting ==
  {[isCurrent |-> TRUE, rec |-> mediaRecorderRef]}
    \cup {[isCurrent |-> FALSE, rec |-> a] : a \in BagToSet(abandoned)}

\* The recorders after recorder h has become new.
With(h, new) ==
  IF h.isCurrent
    THEN [cur |-> Spent(new), abd |-> abandoned]
    ELSE [cur |-> mediaRecorderRef,
          abd |-> (abandoned (-) SetToBag({h.rec})) (+) Kept(new)]

SetHeld(held) ==
  /\ mediaRecorderRef' = held.cur
  /\ abandoned' = held.abd

\* new Blob(recordedChunksRef.current), or null when there is no chunk.
ArtifactOf(chunks) == [isNull |-> chunks = <<>>, chunks |-> chunks]

\* The promise stopRecording returns.  appended and flushed observe the run:
\* the chunks appended before stop was called and while the promise was
\* pending, in their order of arrival, and whether the final flush of the
\* recorder being stopped came.
NoStopCall == [status |-> "none", timeout |-> FALSE, path |-> "none",
               artifact |-> ArtifactOf(<<>>), appended |-> <<>>, flushed |-> FALSE]

\* resolve(blob) with the chunks held now: the first resolution of a promise
\* is the one that counts.
Resolve(call, path, chunks) ==
  IF call.status = "pending"
    THEN [call EXCEPT !.status = "resolved", !.path = path,
                      !.artifact = ArtifactOf(chunks)]
    ELSE call

\* ondataavailable: recordedChunksRef after an event with data (size > 0) or
\* without.
Pushed(nonEmpty) ==
  IF nonEmpty THEN Append(recordedChunks, nextChunk) ELSE recordedChunks

\* What a pending stop call observes of a dataavailable event of a recorder.
Observed(call, rec, nonEmpty, final) ==
  IF call.status = "pending"
    THEN [call EXCEPT !.appended = IF nonEmpty THEN Append(@, nextChunk) ELSE @,
                      !.flushed = @ \/ (rec.onstop = "resolve" /\ final)]
    ELSE call

\* The chunk store after a dataavailable event.
OnDataAvailable(nonEmpty) ==
  /\ nonEmpty => nextChunk <= MaxChunks
  /\ recordedChunks' = Pushed(nonEmpty)
  /\ nextChunk' = IF nonEmpty THEN nextChunk + 1 ELSE nextChunk

\* No stream recorded.
NoSource == [stream |-> 0, tracks |-> {}]

RecIdle ==
  /\ recordingState = "inactive"
  /\ isUnmounting = FALSE
  /\ mimeType = "video/webm"
  /\ mediaRecorderRef = NoRecorder
  /\ abandoned = EmptyBag
  /\ recordedChunks = <<>>
  /\ nextChunk = 1
  /\ recordingCheckInterval = "none"
  /\ stopCall = NoStopCall
  /\ recorderSource = NoSource

\* The hook after its first render; the browser supports a recording format
\* or none.
RecInit ==
  /\ recordingState = "inactive"
  /\ isUnmounting = FALSE
  /\ mimeType \in {"video/webm", ""}
  /\ mediaRecorderRef = NoRecorder
  /\ abandoned = EmptyBag
  /\ recordedChunks = <<>>
  /\ nextChunk = 1
  /\ recordingCheckInterval = "none"
  /\ stopCall = NoStopCall
  /\ recorderSource = NoSource

\* The body of startRecording in a closure whose recordingState is cap, the
\* recorders being held: the old interval is cleared; without a supported
\* format it throws; otherwise a new MediaRecorder replaces the reference (the
\* previous recorder is not stopped), is started, and a new check interval is
\* set.  recordedChunksRef is not reset.
StartRecordingFrom(cap, held) ==
  /\ isUnmounting' = FALSE
  /\ IF mimeType = ""
       THEN /\ recordingCheckInterval' = "none"
            /\ SetHeld(held)
       ELSE /\ BagCardinality(held.abd (+) Kept(held.cur)) < MaxRecorders
            /\ abandoned' = held.abd (+) Kept(held.cur)
            /\ mediaRecorderRef' = NewRecorder(cap)
            /\ recordingCheckInterval' = cap

\* startRecording(), called by the component.
startRecording ==
  /\ ~isUnmounting
  /\ StartRecordingFrom(recordingState, Held)
  /\ UNCHANGED <<recordingState, mimeType, recordedChunks, nextChunk, stopCall>>
  /\ RecFrame

\* onstart: setRecordingState("recording").
DeliverStart ==
  \E h \in Acting :
    /\ h.rec.startPending
    /\ SetHeld(With(h, [h.rec EXCEPT !.startPending = FALSE]))
    /\ recordingState' = "recording"
    /\ UNCHANGED <<isUnmounting, mimeType, recordedChunks, nextChunk,
                   recordingCheckInterval, stopCall>>
    /\ RecFrame

\* The timeslice of a recording recorder (start(1000)) elapses: a
\* dataavailable event with data.
Timeslice ==
  \E h \in Acting :
    /\ h.rec.state = "recording"
    /\ ~h.rec.startPending /\ ~h.rec.dataPending
    /\ OnDataAvailable(TRUE)
    /\ stopCall' = Observed(stopCall, h.rec, TRUE, FALSE)
    /\ UNCHANGED <<recordingState, isUnmounting, mimeType, mediaRecorderRef, abandoned,
                   recordingCheckInterval>>
    /\ RecFrame

\* The dataavailable event of requestData() is delivered, with data or empty.
DeliverData(nonEmpty) ==
  \E h \in Acting :
    /\ ~h.rec.startPending /\ h.rec.dataPending
    /\ SetHeld(With(h, [h.rec EXCEPT !.dataPending = FALSE]))
    /\ OnDataAvailable(nonEmpty)
    /\ stopCall' = Observed(stopCall, h.rec, nonEmpty, FALSE)
    /\ UNCHANGED <<recordingState, isUnmounting, mimeType, recordingCheckInterval>>
    /\ RecFrame

\* The stop task of a recorder: onerror (after a failure) schedules a restart
\* after 2000 ms; ondataavailable takes the final data; then onstop.
\* startRecording's onstop: unless unmounting or its captured recordingState
\* is "stopping", the stop is taken as unexpected and a restart is scheduled
\* after 500 ms.  stopRecording's onstop: the timeout is cleared, the state
\* is "inactive" and the promise of its call is resolved.
DeliverStop(nonEmpty) ==
  \E h \in Acting :
    /\ ~h.rec.startPending /\ ~h.rec.dataPending
    /\ h.rec.stopPending # "none"
    /\ OnDataAvailable(nonEmpty)
    /\ LET failed == h.rec.stopPending = "error"
           call == Observed(stopCall, h.rec, nonEmpty, TRUE)
       IN  IF h.rec.onstop = "restart"
             THEN /\ SetHeld(With(h, [h.rec EXCEPT
                       !.stopPending = "none",
                       !.errorTimer = @ \/ failed,
                       !.restartTimer = @ \/ (~isUnmounting /\ h.rec.capRS # "stopping")]))
                  /\ recordingState' = IF h.rec.capRS = "stopping"
                                         THEN "inactive" ELSE recordingState
                  /\ stopCall' = call
             ELSE /\ SetHeld(With(h, [h.rec EXCEPT
                       !.stopPending = "none", !.errorTimer = @ \/ failed]))
                  /\ recordingState' = "inactive"
                  /\ stopCall' = IF h.rec.onstop = "resolve"
                                   THEN [Resolve(call, "onstop", Pushed(nonEmpty))
                                           EXCEPT !.timeout = FALSE]
                                   ELSE call
    /\ UNCHANGED <<isUnmounting, mimeType, recordingCheckInterval>>
    /\ RecFrame

\* The recorder stops by itself (the tracks it records have ended).
UnexpectedStop ==
  \E h \in Acting :
    /\ h.rec.state = "recording"
    /\ SetHeld(With(h, [h.rec EXCEPT !.state = "inactive", !.stopPending = "stop"]))
    /\ UNCHANGED <<recordingState, isUnmounting, mimeType, recordedChunks, nextChunk,
                   recordingCheckInterval, stopCall>>
    /\ RecFrame

\* The recorder fails.
RecorderError ==
  \E h \in Acting :
    /\ h.rec.state = "recording"
    /\ SetHeld(With(h, [h.rec EXCEPT !.state = "inactive", !.stopPending = "error"]))
    /\ UNCHANGED <<recordingState, isUnmounting, mimeType, recordedChunks, nextChunk,
                   recordingCheckInterval, stopCall>>
    /\ RecFrame

\* The 500 ms timer of the onstop handler startRecording gave recorder h
\* fires: it restarts only if the recordingState its closure captured is
\* "recording".
RestartTimerOf(h) ==
  /\ h.rec.restartTimer
  /\ LET held == With(h, [h.rec EXCEPT !.restartTimer = FALSE])
     IN  IF h.rec.capRS = "recording" /\ ~isUnmounting
           THEN StartRecordingFrom(h.rec.capRS, held)
           ELSE /\ SetHeld(held)
                /\ UNCHANGED <<isUnmounting, recordingCheckInterval>>
  /\ UNCHANGED <<recordingState, mimeType, recordedChunks, nextChunk, stopCall>>
  /\ RecFrame

RestartTimer == \E h \in Acting : RestartTimerOf(h)

\* The 2000 ms timer of onerror fires: it restarts only if the recordingState
\* its closure captured is "recording".
ErrorTimer ==
  \E h \in Acting :
    /\ h.rec.errorTimer
    /\ LET held == With(h, [h.rec EXCEPT !.errorTimer = FALSE])
       IN  IF h.rec.capRS = "recording"
             THEN StartRecordingFrom(h.rec.capRS, held)
             ELSE /\ SetHeld(held)
                  /\ UNCHANGED <<isUnmounting, recordingCheckInterval>>
    /\ UNCHANGED <<recordingState, mimeType, recordedChunks, nextChunk, stopCall>>
    /\ RecFrame

\* The 10 s check interval finds the current recorder inactive and the
\* recordingState its closure captured is "recording": it restarts.  (In
\* every other case the callback only logs.)
RecordingCheck ==
  /\ recordingCheckInterval = "recording"
  /\ mediaRecorderRef = NoRecorder \/ mediaRecorderRef.state = "inactive"
  /\ StartRecordingFrom(recordingCheckInterval, Held)
  /\ UNCHANGED <<recordingState, mimeType, recordedChunks, nextChunk, stopCall>>
  /\ RecFrame

\* An onstop handler of stopRecording, once a later stopRecording call has
\* been made, is that of an earlier call.
Older(rec) ==
  IF rec.onstop = "resolve" THEN [rec EXCEPT !.onstop = "resolveOld"] ELSE rec

\* stopRecording(), called by the component while no earlier stop is still
\* pending.  throws: MediaRecorder.stop() raises.  The interval is cleared;
\* without a recorder, with an inactive recorder or after a throw the promise
\* is resolved at once; otherwise requestData() queues a dataavailable event,
\* stop() the stop task, and the 10 s timeout is armed.  (The hook never
\* pauses a recorder, so the "paused" branch is not reachable.)
stopRecording(throws) ==
  /\ ~isUnmounting
  /\ stopCall.status # "pending"
  /\ recordingCheckInterval' = "none"
  /\ abandoned' = BagOfAll(Older, abandoned)
  /\ LET call == [NoStopCall EXCEPT !.status = "pending", !.appended = recordedChunks]
     IN  IF mediaRecorderRef = NoRecorder
           THEN /\ ~throws
                /\ recordingState' = "inactive"
                /\ stopCall' = Resolve(call, "norecorder", recordedChunks)
                /\ UNCHANGED mediaRecorderRef
         ELSE IF mediaRecorderRef.state # "recording"
           THEN /\ ~throws
                /\ recordingState' = "inactive"
                /\ stopCall' = Resolve(call, "inactive", recordedChunks)
                /\ mediaRecorderRef' = Spent([mediaRecorderRef EXCEPT !.onstop = "resolve"])
         ELSE IF throws
           THEN /\ recordingState' = "inactive"
                /\ stopCall' = Resolve(call, "error", recordedChunks)
                /\ mediaRecorderRef' = [mediaRecorderRef EXCEPT
                     !.onstop = "resolve", !.dataPending = TRUE]
         ELSE /\ recordingState' = "stopping"
              /\ stopCall' = [call EXCEPT !.timeout = TRUE]
              /\ mediaRecorderRef' = [mediaRecorderRef EXCEPT
                   !.onstop = "resolve", !.state = "inactive",
                   !.dataPending = TRUE, !.stopPending = "stop"]
  /\ UNCHANGED <<isUnmounting, mimeType, recordedChunks, nextChunk>>
  /\ RecFrame

\* Mutant of StopTimeout: the timeout path resolves with null.
StopTimeout_ResolvesNull ==
  /\ stopCall.timeout
  /\ recordingState' = "inactive"
  /\ stopCall' = [Resolve(stopCall, "timeout", <<>>) EXCEPT !.timeout = FALSE]
  /\ UNCHANGED <<isUnmounting, mimeType, mediaRecorderRef, abandoned,
                 recordedChunks, nextChunk, recordingCheckInterval>>
  /\ RecFrame

\* Mutant of StopTimeout: the timer is disarmed without resolving the promise.
StopTimeout_OnlyDisarms ==
  /\ stopCall.timeout
  /\ recordingState' = "inactive"
  /\ stopCall' = [stopCall EXCEPT !.timeout = FALSE]
  /\ UNCHANGED <<isUnmounting, mimeType, mediaRecorderRef, abandoned,
                 recordedChunks, nextChunk, recordingCheckInterval>>
  /\ RecFrame

\* The 10 s safety timeout of stopRecording fires before the stop event.
StopTimeout ==
  /\ stopCall.timeout
  /\ recordingState' = "inactive"
  /\ stopCall' = [Resolve(stopCall, "timeout", recordedChunks) EXCEPT !.timeout = FALSE]
  /\ UNCHANGED <<isUnmounting, mimeType, mediaRecorderRef, abandoned,
                 recordedChunks, nextChunk, recordingCheckInterval>>
  /\ RecFrame

\* The component unmounts.  The cleanup effect has no dependencies: the
\* recordingState and localStream it tests are those of the first render
\* ("inactive", null), so it stops neither the recorder nor a track.
Unmount ==
  /\ ~isUnmounting
  /\ isUnmounting' = TRUE
  /\ recordingCheckInterval' = "none"
  /\ UNCHANGED <<recordingState, mimeType, mediaRecorderRef, abandoned,
                 recordedChunks, nextChunk, stopCall>>
  /\ RecFrame

RecNext ==
  \/ startRecording
  \/ DeliverStart
  \/ Timeslice
  \/ \E nonEmpty \in BOOLEAN : DeliverData(nonEmpty)
  \/ \E nonEmpty \in BOOLEAN : DeliverStop(nonEmpty)
  \/ UnexpectedStop
  \/ RecorderError
  \/ RestartTimer
  \/ ErrorTimer
  \/ RecordingCheck
  \/ \E throws \in BOOLEAN : stopRecording(throws)
  \/ StopTimeout
  \/ Unmount

----------------------------------------------------------------------------
\* client/src/hooks/useWebRTC.ts (second definition): the recording
\* controller.  It installs no onstart, onstop or onerror handler when it
\* starts a recorder, sets no interval and no timeout, and resets
\* recordedChunksRef both when it starts and when a stop is acknowledged.  The
\* stream to record is taken as acquired.

\* new Blob(recordedChunksRef.current): a Blob even when there is no chunk.
BlobOf(chunks) == [isNull |-> FALSE, chunks |-> chunks]

\* new MediaRecorder(localStream); start(1000): no handler but ondataavailable.
NewRecorder2 == [NoRecorder EXCEPT !.state = "recording", !.onstop = "none"]

\* startRecording(): the recorder held is replaced (not stopped) and the
\* chunk store is reset.  The new recorder records localStream itself.
startRecording2 ==
  /\ BagCardinality(abandoned (+) Kept(mediaRecorderRef)) < MaxRecorders
  /\ abandoned' = abandoned (+) Kept(mediaRecorderRef)
  /\ mediaRecorderRef' = NewRecorder2
  /\ recordedChunks' = <<>>
  /\ recordingState' = "recording"
  /\ recorderSource' = [stream |-> localStream,
                        tracks |-> IF localStream = 0 THEN {} ELSE streams[localStream]]
  /\ UNCHANGED <<isUnmounting, mimeType, nextChunk, recordingCheckInterval, stopCall>>
  /\ UNCHANGED <<serverVars, filterVars, mediaVars, healthVars, clientVars>>

\* The timeslice of a recording recorder elapses: ondataavailable with data.
Timeslice2 ==
  \E h \in Acting :
    /\ h.rec.state = "recording"
    /\ OnDataAvailable(TRUE)
    /\ stopCall' = Observed(stopCall, h.rec, TRUE, FALSE)
    /\ UNCHANGED <<recordingState, isUnmounting, mimeType, mediaRecorderRef, abandoned,
                   recordingCheckInterval>>
    /\ RecFrame

\* The recorder stops by itself (the tracks it records have ended).
UnexpectedStop2 ==
  \E h \in Acting :
    /\ h.rec.state = "recording"
    /\ SetHeld(With(h, [h.rec EXCEPT !.state = "inactive", !.stopPending = "stop"]))
    /\ UNCHANGED <<recordingState, isUnmounting, mimeType, recordedChunks, nextChunk,
                   recordingCheckInterval, stopCall>>
    /\ RecFrame

\* stopRecording(), called while no earlier stop is still pending: null
\* without a recorder; otherwise onstop is replaced and stop() is called,
\* which raises InvalidStateError on an inactive recorder: thrown in the
\* executor, it rejects the promise.
stopRecording2 ==
  /\ stopCall.status # "pending"
  /\ abandoned' = BagOfAll(Older, abandoned)
  /\ LET call == [NoStopCall EXCEPT !.status = "pending", !.appended = recordedChunks]
     IN  IF mediaRecorderRef = NoRecorder
           THEN /\ stopCall' = [call EXCEPT !.status = "resolved", !.path = "norecorder"]
                /\ UNCHANGED mediaRecorderRef
         ELSE IF mediaRecorderRef.state # "recording"
           THEN /\ stopCall' = [call EXCEPT !.status = "rejected", !.path = "throws"]
                /\ mediaRecorderRef' = Spent([mediaRecorderRef EXCEPT !.onstop = "resolve"])
         ELSE /\ stopCall' = call
              /\ mediaRecorderRef' = [mediaRecorderRef EXCEPT
                   !.onstop = "resolve", !.state = "inactive", !.stopPending = "stop"]
  /\ UNCHANGED <<recordingState, isUnmounting, mimeType, recordedChunks, nextChunk,
                 recordingCheckInterval>>
  /\ RecFrame

\* The stop task of a recorder: ondataavailable takes the final data; then
\* onstop, if stopRecording has set one: the Blob is built, the chunk store
\* is reset, the state is "inactive" and the promise of that call is
\* resolved (to no effect if it is settled already).
DeliverStop2(nonEmpty) ==
  \E h \in Acting :
    /\ h.rec.stopPending # "none"
    /\ nonEmpty => nextChunk <= MaxChunks
    /\ nextChunk' = IF nonEmpty THEN nextChunk + 1 ELSE nextChunk
    /\ SetHeld(With(h, [h.rec EXCEPT !.stopPending = "none"]))
    /\ LET call == Observed(stopCall, h.rec, nonEmpty, TRUE)
       IN  IF h.rec.onstop = "none"
             THEN /\ recordedChunks' = Pushed(nonEmpty)
                  /\ stopCall' = call
                  /\ UNCHANGED recordingState
             ELSE /\ recordedChunks' = <<>>
                  /\ recordingState' = "inactive"
                  /\ stopCall' =
                       IF h.rec.onstop = "resolve" /\ call.status = "pending"
                         THEN [call EXCEPT !.status = "resolved", !.path = "onstop",
                                           !.artifact = BlobOf(Pushed(nonEmpty))]
                         ELSE call
    /\ UNCHANGED <<isUnmounting, mimeType, recordingCheckInterval>>
    /\ RecFrame

Rec2Next ==
  \/ startRecording2
  \/ Timeslice2
  \/ UnexpectedStop2
  \/ stopRecording2
  \/ \E nonEmpty \in BOOLEAN : DeliverStop2(nonEmpty)

----------------------------------------------------------------------------
\* client/src/hooks/useWebRTC.ts: the media stream.  The file defines the
\* hook twice; impl says which definition runs.  The first acquires the
\* stream in three tiers and re-acquires it when a track ends; the second
\* acquires it with one request and releases the camera while it is off.
\* getUserMedia is the environment: each request in flight resolves or
\* rejects in a step of its own.  The backup clone the first definition keeps
\* of each stream is read by the health monitor only and is described with
\* it.

\* MediaStream objects created in one run.
MaxStreams == 2
\* getUserMedia requests and waiters in flight at once.
MaxCalls == 2

StreamIds == 1..MaxStreams
Cids == 1..MaxCalls
Kinds == {"audio", "video"}
\* A track is named by the stream it was created for and by its kind.
TrackIds == StreamIds \X Kinds
NoStream == 0

TierOrder == <<"ideal", "minimal", "audioOnly">>
\* The kinds each tier's constraints ask for.
TierKinds(tier) == IF tier = "audioOnly" THEN {"audio"} ELSE Kinds

NoTrack == [live |-> FALSE, enabled |-> FALSE]
NewTrack == [live |-> TRUE, enabled |-> TRUE]

NoCall == [pc |-> "idle", caller |-> "none", kind |-> "none", cap |-> NoStream,
           tried |-> <<>>]
NoLastCall == [caller |-> "none", tried |-> <<>>, result |-> "none",
               stream |-> NoStream]

IsFreeCall(c) == calls[c].pc = "idle"
HasFreeCall == \E c \in Cids : IsFreeCall(c)
FreeCall == CHOOSE c \in Cids : IsFreeCall(c) /\ \A d \in Cids : IsFreeCall(d) => c <= d

TracksOf(strs, s, kind) == {t \in strs[s] : t[2] = kind}

\* The fields the toggles read and write, as one value.
MediaState ==
  [tracks |-> tracks, streams |-> streams, localStream |-> localStream,
   srcObject |-> srcObject, isMicMuted |-> isMicMuted, isCameraOff |-> isCameraOff]

MediaIdle ==
  /\ impl = 1
  /\ browserSupport = TRUE
  /\ tracks = [t \in TrackIds |-> NoTrack]
  /\ streams = [s \in StreamIds |-> {}]
  /\ nextStream = 1
  /\ localStream = NoStream
  /\ streamRef = NoStream
  /\ srcObject = NoStream
  /\ isInitializing = FALSE
  /\ isMicMuted = FALSE
  /\ isCameraOff = FALSE
  /\ calls = [c \in Cids |-> NoCall]
  /\ lastCall = NoLastCall
  /\ endedTimers = {}
  /\ cloneEnded = {}
  /\ healthTimers = {}

\* The first definition after its first render, in a browser that supports
\* capture and recording or in one that does not.
AcquireInit ==
  /\ impl = 1
  /\ browserSupport \in BOOLEAN
  /\ tracks = [t \in TrackIds |-> NoTrack]
  /\ streams = [s \in StreamIds |-> {}]
  /\ nextStream = 1
  /\ localStream = NoStream
  /\ streamRef = NoStream
  /\ srcObject = NoStream
  /\ isInitializing = FALSE
  /\ isMicMuted = FALSE
  /\ isCameraOff = FALSE
  /\ calls = [c \in Cids |-> NoCall]
  /\ lastCall = NoLastCall
  /\ endedTimers = {}
  /\ cloneEnded = {}
  /\ healthTimers = {}

\* Either definition after its first render, in a browser that supports
\* capture and recording.
MediaInit ==
  /\ impl \in {1, 2}
  /\ browserSupport = TRUE
  /\ tracks = [t \in TrackIds |-> NoTrack]
  /\ streams = [s \in StreamIds |-> {}]
  /\ nextStream = 1
  /\ localStream = NoStream
  /\ streamRef = NoStream
  /\ srcObject = NoStream
  /\ isInitializing = FALSE
  /\ isMicMuted = FALSE
  /\ isCameraOff = FALSE
  /\ calls = [c \in Cids |-> NoCall]
  /\ lastCall = NoLastCall
  /\ endedTimers = {}
  /\ cloneEnded = {}
  /\ healthTimers = {}

\* ---- acquisition, first definition ----

\* startLocalStream past its guards (the ref holds no stream):
\* setIsInitializing(true), the browser check, the first getUserMedia.  An
\* unsupported browser throws into the outer catch and the finally.
BeginAcquire(caller, c) ==
  /\ streamRef' = NoStream
  /\ IF browserSupport
       THEN /\ isInitializing' = TRUE
            /\ calls' = [calls EXCEPT ![c] = [NoCall EXCEPT !.pc = "ideal",
                                                            !.caller = caller]]
            /\ UNCHANGED <<localStream, lastCall>>
       ELSE /\ isInitializing' = FALSE
            /\ localStream' = NoStream
            /\ lastCall' = [NoLastCall EXCEPT !.caller = caller,
                                              !.result = "UnsupportedBrowser"]
            /\ UNCHANGED calls

\* The component calls startLocalStream of the latest render.
startLocalStream ==
  /\ impl = 1
  /\ HasFreeCall
  /\ IF streamRef # NoStream
       THEN \* both guards return the stream the ref holds
            /\ lastCall' = [NoLastCall EXCEPT !.caller = "user", !.result = "reused",
                                              !.stream = streamRef]
            /\ UNCHANGED <<isInitializing, calls, localStream, streamRef>>
       ELSE IF isInitializing
         THEN \* waits; the 300 ms poll tests the isInitializing this render
              \* captured (true), so only the 10 s timeout ends the wait
              /\ calls' = [calls EXCEPT ![FreeCall] =
                             [NoCall EXCEPT !.pc = "wait", !.caller = "user"]]
              /\ UNCHANGED <<isInitializing, lastCall, localStream, streamRef>>
         ELSE BeginAcquire("user", FreeCall)
  /\ UNCHANGED <<impl, browserSupport, tracks, streams, nextStream, srcObject,
                 isMicMuted, isCameraOff, endedTimers>>
  /\ MediaFrame

WaitTimeout(c) ==
  /\ calls[c].pc = "wait"
  /\ calls' = [calls EXCEPT ![c] = NoCall]
  /\ lastCall' = [NoLastCall EXCEPT !.caller = calls[c].caller,
                                    !.result = "AcquisitionTimeout"]
  /\ UNCHANGED <<impl, browserSupport, tracks, streams, nextStream, localStream,
                 streamRef, srcObject, isInitializing, isMicMuted, isCameraOff,
                 endedTimers>>
  /\ MediaFrame

TierIndex(tier) == CHOOSE i \in 1..Len(TierOrder) : TierOrder[i] = tier
Attempt(c, ok) == Append(calls[c].tried, [tier |-> calls[c].pc, ok |-> ok])

\* getUserMedia creates stream s with one live, enabled track per kind.
Mint(s, kinds) ==
  /\ tracks' = [t \in TrackIds |->
                  IF t[1] = s /\ t[2] \in kinds THEN NewTrack ELSE tracks[t]]
  /\ streams' = [streams EXCEPT ![s] = {s} \X kinds]
  /\ nextStream' = s + 1

\* A tier's getUserMedia resolves: the stream becomes the state, the ref and
\* the video element's source; the finally clears isInitializing.
GumOk(c) ==
  /\ calls[c].pc \in {"ideal", "minimal", "audioOnly"}
  /\ nextStream <= MaxStreams
  /\ Mint(nextStream, TierKinds(calls[c].pc))
  /\ localStream' = nextStream
  /\ streamRef' = nextStream
  /\ srcObject' = nextStream
  /\ isInitializing' = FALSE
  /\ calls' = [calls EXCEPT ![c] = NoCall]
  /\ lastCall' = [caller |-> calls[c].caller, tried |-> Attempt(c, TRUE),
                  result |-> "stream", stream |-> nextStream]
  /\ UNCHANGED <<impl, browserSupport, isMicMuted, isCameraOff, endedTimers>>
  /\ MediaFrame

\* A variant that goes from the ideal tier straight to audio only.
GumFail_SkipsMinimal(c) ==
  /\ calls[c].pc \in {"ideal", "minimal", "audioOnly"}
  /\ IF calls[c].pc # "audioOnly"
       THEN /\ calls' = [calls EXCEPT ![c].pc = "audioOnly",
                                      ![c].tried = Attempt(c, FALSE)]
            /\ UNCHANGED <<localStream, streamRef, isInitializing, lastCall>>
       ELSE /\ calls' = [calls EXCEPT ![c] = NoCall]
            /\ streamRef' = NoStream
            /\ localStream' = NoStream
            /\ isInitializing' = FALSE
            /\ lastCall' = [caller |-> calls[c].caller, tried |-> Attempt(c, FALSE),
                            result |-> "DeviceUnavailable", stream |-> NoStream]
  /\ UNCHANGED <<impl, browserSupport, tracks, streams, nextStream, srcObject,
                 isMicMuted, isCameraOff, endedTimers>>
  /\ MediaFrame

\* A tier's getUserMedia rejects: the next tier is requested; after the last
\* one the error "Could not access any media devices" goes through the outer
\* catch (ref and state null) and the finally.
GumFail(c) ==
  /\ calls[c].pc \in {"ideal", "minimal", "audioOnly"}
  /\ IF calls[c].pc # "audioOnly"
       THEN /\ calls' = [calls EXCEPT ![c].pc = TierOrder[TierIndex(calls[c].pc) + 1],
                                      ![c].tried = Attempt(c, FALSE)]
            /\ UNCHANGED <<localStream, streamRef, isInitializing, lastCall>>
       ELSE /\ calls' = [calls EXCEPT ![c] = NoCall]
            /\ streamRef' = NoStream
            /\ localStream' = NoStream
            /\ isInitializing' = FALSE
            /\ lastCall' = [caller |-> calls[c].caller, tried |-> Attempt(c, FALSE),
                            result |-> "DeviceUnavailable", stream |-> NoStream]
  /\ UNCHANGED <<impl, browserSupport, tracks, streams, nextStream, srcObject,
                 isMicMuted, isCameraOff, endedTimers>>
  /\ MediaFrame

\* ---- recovery of an ended track, first definition ----

\* The browser ends a track (device unplugged, permission revoked).  The
\* first definition's "ended" handler schedules a recovery in 300 ms unless
\* the page is hidden or the component is unmounting; the second definition
\* registers no handler.
TrackEnded(t, hidden) ==
  /\ tracks[t].live
  /\ tracks' = [tracks EXCEPT ![t].live = FALSE]
  /\ endedTimers' = IF impl = 1 /\ ~hidden /\ ~isUnmounting
                      THEN endedTimers \cup {t} ELSE endedTimers
  /\ UNCHANGED <<impl, browserSupport, streams, nextStream, localStream, streamRef,
                 srcObject, isInitializing, isMicMuted, isCameraOff, calls, lastCall>>
  /\ MediaFrame

\* The recovery timer: asks getUserMedia for a track of the ended kind.
RecoveryTimer(t) ==
  /\ t \in endedTimers
  /\ endedTimers' = endedTimers \ {t}
  /\ IF isUnmounting
       THEN UNCHANGED calls
       ELSE /\ HasFreeCall
            /\ calls' = [calls EXCEPT ![FreeCall] =
                           [NoCall EXCEPT !.pc = "probe", !.caller = "recovery",
                                          !.kind = t[2]]]
  /\ UNCHANGED <<impl, browserSupport, tracks, streams, nextStream, localStream,
                 streamRef, srcObject, isInitializing, isMicMuted, isCameraOff,
                 lastCall>>
  /\ MediaFrame

\* Mutant of ProbeFail: the failed request also clears the stream ref.
ProbeFail_ClearsRef(c) ==
  /\ calls[c].pc = "probe"
  /\ calls' = [calls EXCEPT ![c] = NoCall]
  /\ streamRef' = NoStream
  /\ UNCHANGED <<impl, browserSupport, tracks, streams, nextStream, localStream,
                 srcObject, isInitializing, isMicMuted, isCameraOff,
                 lastCall, endedTimers>>
  /\ MediaFrame

\* The recovery's request rejects: the catch logs it.
ProbeFail(c) ==
  /\ calls[c].pc = "probe"
  /\ calls' = [calls EXCEPT ![c] = NoCall]
  /\ UNCHANGED <<impl, browserSupport, tracks, streams, nextStream, localStream,
                 streamRef, srcObject, isInitializing, isMicMuted, isCameraOff,
                 lastCall, endedTimers>>
  /\ MediaFrame

\* The recovery's request resolves: streamRef.current = null, then
\* startLocalStream().  The handler was created inside a startLocalStream
\* that had passed its guard, so the startLocalStream it names is one whose
\* captured isInitializing is false: the in-progress guard is not taken, and
\* the ref was just cleared, so the acquisition begins whatever is in flight.
ProbeOk(c) ==
  /\ calls[c].pc = "probe"
  /\ BeginAcquire("recovery", c)
  /\ UNCHANGED <<impl, browserSupport, tracks, streams, nextStream, srcObject,
                 isMicMuted, isCameraOff, endedTimers>>
  /\ MediaFrame

\* ---- the toggles ----

\* A variant that only ever disables the tracks.
FlipEnabled_DisablesOnly(trs, members, kind) ==
  [t \in TrackIds |->
     IF t \in members /\ t[2] = kind THEN [trs[t] EXCEPT !.enabled = FALSE]
                                     ELSE trs[t]]

\* get<Kind>Tracks().forEach(track => { track.enabled = !track.enabled })
FlipEnabled(trs, members, kind) ==
  [t \in TrackIds |->
     IF t \in members /\ t[2] = kind THEN [trs[t] EXCEPT !.enabled = ~@]
                                     ELSE trs[t]]

\* First definition (the second's toggleMicrophone is the same code).
ToggledMicrophone(st) ==
  IF st.localStream = NoStream THEN st
  ELSE [st EXCEPT !.tracks = FlipEnabled(@, st.streams[st.localStream], "audio"),
                  !.isMicMuted = ~@]

ToggledCamera(st) ==
  IF st.localStream = NoStream THEN st
  ELSE [st EXCEPT !.tracks = FlipEnabled(@, st.streams[st.localStream], "video"),
                  !.isCameraOff = ~@]

\* Second definition, the synchronous part of toggleCamera.  Camera on ->
\* off: every video track of the stream is stopped and removed from it and
\* the video element loses its source.  Off -> on: only the flag changes
\* here; the stream is rebuilt when the camera request resolves (CameraOk).
ToggledCamera2(st) ==
  IF st.localStream = NoStream THEN st
  ELSE IF ~st.isCameraOff
    THEN [st EXCEPT
            !.tracks = [t \in TrackIds |->
                          IF t \in TracksOf(st.streams, st.localStream, "video")
                            THEN [@[t] EXCEPT !.live = FALSE] ELSE @[t]],
            !.streams = [@ EXCEPT ![st.localStream] =
                           @ \ TracksOf(st.streams, st.localStream, "video")],
            !.srcObject = NoStream,
            !.isCameraOff = TRUE]
    ELSE [st EXCEPT !.isCameraOff = FALSE]

\* The toggle of a kind under the definition in use.
Toggled(st, kind) ==
  IF kind = "audio" THEN ToggledMicrophone(st)
  ELSE IF impl = 1 THEN ToggledCamera(st)
  ELSE ToggledCamera2(st)

SetMediaState(st) ==
  /\ tracks' = st.tracks
  /\ streams' = st.streams
  /\ localStream' = st.localStream
  /\ srcObject' = st.srcObject
  /\ isMicMuted' = st.isMicMuted
  /\ isCameraOff' = st.isCameraOff

toggleMicrophone ==
  /\ impl = 1
  /\ localStream # NoStream
  /\ SetMediaState(ToggledMicrophone(MediaState))
  /\ UNCHANGED <<impl, browserSupport, nextStream, streamRef, isInitializing, calls,
                 lastCall, endedTimers>>
  /\ MediaFrame

toggleCamera ==
  /\ impl = 1
  /\ localStream # NoStream
  /\ SetMediaState(ToggledCamera(MediaState))
  /\ UNCHANGED <<impl, browserSupport, nextStream, streamRef, isInitializing, calls,
                 lastCall, endedTimers>>
  /\ MediaFrame

toggleMicrophone2 ==
  /\ impl = 2
  /\ localStream # NoStream
  /\ SetMediaState(ToggledMicrophone(MediaState))
  /\ UNCHANGED <<impl, browserSupport, nextStream, streamRef, isInitializing, calls,
                 lastCall, endedTimers>>
  /\ MediaFrame

\* Turning the camera on also sends a video-only getUserMedia whose
\* continuation holds the stream of this render.
toggleCamera2 ==
  /\ impl = 2
  /\ localStream # NoStream
  /\ SetMediaState(ToggledCamera2(MediaState))
  /\ IF isCameraOff
       THEN /\ HasFreeCall
            /\ calls' = [calls EXCEPT ![FreeCall] =
                           [NoCall EXCEPT !.pc = "camera", !.caller = "toggleCamera",
                                          !.kind = "video", !.cap = localStream]]
       ELSE UNCHANGED calls
  /\ UNCHANGED <<impl, browserSupport, nextStream, streamRef, isInitializing,
                 lastCall, endedTimers>>
  /\ MediaFrame

\* The camera request resolves with a new video track: the captured stream's
\* video tracks are removed and stopped, the new track is added to it, and a
\* new MediaStream of its audio tracks and the new track replaces the state,
\* the ref and the video element's source.
CameraOk(c) ==
  /\ calls[c].pc = "camera"
  /\ nextStream <= MaxStreams
  /\ LET old == calls[c].cap
         videoTrack == <<nextStream, "video">>
         existing == TracksOf(streams, old, "video")
         audio == TracksOf(streams, old, "audio")
     IN /\ tracks' = [t \in TrackIds |->
                        IF t = videoTrack THEN NewTrack
                        ELSE IF t \in existing THEN [tracks[t] EXCEPT !.live = FALSE]
                        ELSE tracks[t]]
        /\ streams' = [streams EXCEPT ![old] = (@ \ existing) \cup {videoTrack},
                                      ![nextStream] = audio \cup {videoTrack}]
  /\ nextStream' = nextStream + 1
  /\ localStream' = nextStream
  /\ streamRef' = nextStream
  /\ srcObject' = nextStream
  /\ calls' = [calls EXCEPT ![c] = NoCall]
  /\ UNCHANGED <<impl, browserSupport, isInitializing, isMicMuted, isCameraOff,
                 lastCall, endedTimers>>
  /\ MediaFrame

\* The camera request rejects: setStreamError("Failed to restart camera").
CameraFail(c) ==
  /\ calls[c].pc = "camera"
  /\ calls' = [calls EXCEPT ![c] = NoCall]
  /\ UNCHANGED <<impl, browserSupport, tracks, streams, nextStream, localStream,
                 streamRef, srcObject, isInitializing, isMicMuted, isCameraOff,
                 lastCall, endedTimers>>
  /\ MediaFrame

\* ---- acquisition, second definition ----

\* initializeStream: one getUserMedia for audio and video, no guard.
initializeStream ==
  /\ impl = 2
  /\ HasFreeCall
  /\ calls' = [calls EXCEPT ![FreeCall] =
                 [NoCall EXCEPT !.pc = "init", !.caller = "user"]]
  /\ UNCHANGED <<impl, browserSupport, tracks, streams, nextStream, localStream,
                 streamRef, srcObject, isInitializing, isMicMuted, isCameraOff,
                 lastCall, endedTimers>>
  /\ MediaFrame

InitOk(c) ==
  /\ calls[c].pc = "init"
  /\ nextStream <= MaxStreams
  /\ Mint(nextStream, Kinds)
  /\ localStream' = nextStream
  /\ streamRef' = nextStream
  /\ calls' = [calls EXCEPT ![c] = NoCall]
  /\ lastCall' = [caller |-> calls[c].caller, tried |-> <<>>, result |-> "stream",
                  stream |-> nextStream]
  /\ UNCHANGED <<impl, browserSupport, srcObject, isInitializing, isMicMuted,
                 isCameraOff, endedTimers>>
  /\ MediaFrame

InitFail(c) ==
  /\ calls[c].pc = "init"
  /\ calls' = [calls EXCEPT ![c] = NoCall]
  /\ lastCall' = [caller |-> calls[c].caller, tried |-> <<>>, result |-> "failed",
                  stream |-> NoStream]
  /\ UNCHANGED <<impl, browserSupport, tracks, streams, nextStream, localStream,
                 streamRef, srcObject, isInitializing, isMicMuted, isCameraOff,
                 endedTimers>>
  /\ MediaFrame

\* ---- health monitor, release and unmount, first definition ----

\* stream.clone(): startLocalStream keeps a clone of each stream it acquires
\* as the stream's _backupClone.  A clone has a track of its own for every
\* track of the stream, live and enabled as the stream's tracks are when it
\* is acquired; the backup clone of stream s is named -s and the track of
\* the clone made of track t by t.  No handler is registered on the tracks
\* of a clone, and they end here only when the hook stops them.
BackupOf(s) == 0 - s
IsBackup(st) == st < 0

\* The tracks of a stream or of a backup clone that are live.
LiveTracks(st) ==
  IF st = NoStream THEN {}
  ELSE IF IsBackup(st) THEN streams[0 - st] \ cloneEnded
  ELSE {t \in streams[st] : tracks[t].live}

\* getVideoTracks().some(t => t.readyState === 'live')
HasLiveVideo(st) == \E t \in LiveTracks(st) : t[2] = "video"

\* getVideoTracks().some(t => t.readyState === 'live' && t.enabled)
HasActiveVideo(st) ==
  \E t \in LiveTracks(st) : t[2] = "video" /\ (IsBackup(st) \/ tracks[t].enabled)

\* track.stop() on every track of each of the streams sts.
StopTracksOf(sts) ==
  /\ tracks' = [t \in TrackIds |->
                  IF \E st \in sts : st > 0 /\ t \in streams[st]
                    THEN [tracks[t] EXCEPT !.live = FALSE] ELSE tracks[t]]
  /\ cloneEnded' = cloneEnded \cup
                     UNION {streams[0 - st] : st \in {x \in sts : IsBackup(x)}}

\* checkStreamHealth, run by the monitoring effect when it is set up and
\* every 3 s after.  The effect is set up again whenever localStream or
\* isInitializing changes and only for a stream, and an unmount clears the
\* interval: the check runs on the localStream and isInitializing of the
\* latest render.  Without an active video track it re-attaches the video
\* element and sets the 1 s recovery timer.
checkStreamHealth ==
  /\ impl = 1
  /\ localStream # NoStream
  /\ ~isUnmounting
  /\ IF isInitializing \/ HasActiveVideo(localStream)
       THEN UNCHANGED <<srcObject, healthTimers>>
       ELSE /\ srcObject' = localStream
            /\ healthTimers' = healthTimers \cup {localStream}
  /\ UNCHANGED <<impl, browserSupport, tracks, streams, nextStream, localStream,
                 streamRef, isInitializing, isMicMuted, isCameraOff, calls, lastCall,
                 endedTimers, cloneEnded, recVars>>
  /\ HealthFrame

\* The 1 s recovery callback of a check, on the stream s the check ran on.
\* It tests neither isInitializing nor the unmounting flag.  If s has no
\* live video track: the backup clone of the stream the ref holds, when it
\* has an active video track, becomes the state and the video element's
\* source (the video element is gone after an unmount, and the callback goes
\* on); otherwise the live tracks of s are stopped, the ref and the state are
\* cleared and a new stream is acquired after 500 ms.
HealthRecovery(s) ==
  /\ s \in healthTimers
  /\ healthTimers' = healthTimers \ {s}
  /\ IF HasLiveVideo(s)
       THEN UNCHANGED <<tracks, cloneEnded, localStream, streamRef, srcObject, calls>>
     ELSE IF streamRef # NoStream /\ HasActiveVideo(BackupOf(streamRef)) /\ ~isUnmounting
       THEN /\ localStream' = BackupOf(streamRef)
            /\ srcObject' = BackupOf(streamRef)
            /\ UNCHANGED <<tracks, cloneEnded, streamRef, calls>>
     ELSE /\ HasFreeCall
          /\ StopTracksOf({s})
          /\ streamRef' = NoStream
          /\ localStream' = NoStream
          /\ calls' = [calls EXCEPT ![FreeCall] =
                         [NoCall EXCEPT !.pc = "refresh", !.caller = "health"]]
          /\ UNCHANGED srcObject
  /\ UNCHANGED <<impl, browserSupport, streams, nextStream, isInitializing,
                 isMicMuted, isCameraOff, lastCall, endedTimers, recVars>>
  /\ HealthFrame

\* The recovery after its 500 ms wait: startLocalStream() of the render the
\* check ran in, whose isInitializing is false.  A stream the ref holds by
\* now is returned and attached to the video element; otherwise the
\* acquisition begins.
HealthRefresh(c) ==
  /\ calls[c].pc = "refresh"
  /\ IF streamRef # NoStream
       THEN /\ srcObject' = streamRef
            /\ calls' = [calls EXCEPT ![c] = NoCall]
            /\ lastCall' = [NoLastCall EXCEPT !.caller = "health", !.result = "reused",
                                              !.stream = streamRef]
            /\ UNCHANGED <<localStream, streamRef, isInitializing>>
       ELSE /\ BeginAcquire("health", c)
            /\ UNCHANGED srcObject
  /\ UNCHANGED <<impl, browserSupport, tracks, streams, nextStream, isMicMuted,
                 isCameraOff, endedTimers, recVars, healthVars>>
  /\ HealthFrame

\* stopAllMediaTracks of the latest render: a recorder that is not inactive
\* is stopped, every track of the state's stream and of the ref's stream is
\* stopped, and the ref, the video element's source and the state are
\* cleared.
stopAllMediaTracks ==
  /\ impl = 1
  /\ IF mediaRecorderRef # NoRecorder /\ mediaRecorderRef.state = "recording"
       THEN /\ recordingState' = "stopping"
            /\ mediaRecorderRef' = [mediaRecorderRef EXCEPT !.state = "inactive",
                                                            !.stopPending = "stop"]
       ELSE UNCHANGED <<recordingState, mediaRecorderRef>>
  /\ StopTracksOf({localStream, streamRef})
  /\ streamRef' = NoStream
  /\ srcObject' = NoStream
  /\ localStream' = NoStream
  /\ UNCHANGED <<impl, browserSupport, streams, nextStream, isInitializing,
                 isMicMuted, isCameraOff, calls, lastCall, endedTimers, healthTimers,
                 isUnmounting, mimeType, abandoned, recordedChunks, nextChunk,
                 recordingCheckInterval, stopCall>>
  /\ HealthFrame

\* The first definition once mounted, in a browser that supports capture.
HealthInit ==
  /\ impl = 1
  /\ browserSupport = TRUE
  /\ tracks = [t \in TrackIds |-> NoTrack]
  /\ streams = [s \in StreamIds |-> {}]
  /\ nextStream = 1
  /\ localStream = NoStream
  /\ streamRef = NoStream
  /\ srcObject = NoStream
  /\ isInitializing = FALSE
  /\ isMicMuted = FALSE
  /\ isCameraOff = FALSE
  /\ calls = [c \in Cids |-> NoCall]
  /\ lastCall = NoLastCall
  /\ endedTimers = {}
  /\ cloneEnded = {}
  /\ healthTimers = {}

\* The streams a recovery callback can have captured.
HealthStreams == StreamIds \cup {BackupOf(s) : s \in StreamIds}

\* Acquisition, health monitor, release and unmount under the first
\* definition.
HealthNext ==
  \/ startLocalStream
  \/ \E c \in Cids : WaitTimeout(c)
  \/ \E c \in Cids : GumOk(c)
  \/ \E c \in Cids : GumFail(c)
  \/ \E t \in TrackIds, hidden \in BOOLEAN : TrackEnded(t, hidden)
  \/ \E t \in TrackIds : RecoveryTimer(t)
  \/ \E c \in Cids : ProbeOk(c)
  \/ \E c \in Cids : ProbeFail(c)
  \/ checkStreamHealth
  \/ \E s \in HealthStreams : HealthRecovery(s)
  \/ \E c \in Cids : HealthRefresh(c)
  \/ stopAllMediaTracks
  \/ Unmount

\* Acquisition and recovery under the first definition.
AcquireNext ==
  \/ startLocalStream
  \/ \E c \in Cids : WaitTimeout(c)
  \/ \E c \in Cids : GumOk(c)
  \/ \E c \in Cids : GumFail(c)
  \/ \E t \in TrackIds, hidden \in BOOLEAN : TrackEnded(t, hidden)
  \/ \E t \in TrackIds : RecoveryTimer(t)
  \/ \E c \in Cids : ProbeOk(c)
  \/ \E c \in Cids : ProbeFail(c)

\* The toggles under both definitions, on the streams the component acquires.
ToggleNext ==
  \/ startLocalStream
  \/ \E c \in Cids : WaitTimeout(c)
  \/ \E c \in Cids : GumOk(c)
  \/ \E c \in Cids : GumFail(c)
  \/ toggleMicrophone
  \/ toggleCamera
  \/ initializeStream
  \/ \E c \in Cids : InitOk(c)
  \/ \E c \in Cids : InitFail(c)
  \/ toggleMicrophone2
  \/ toggleCamera2
  \/ \E c \in Cids : CameraOk(c)
  \/ \E c \in Cids : CameraFail(c)

\* ---- recording the stream, second definition ----

\* startRecording() of a render that holds a stream (without one it returns).
startRecordingOfStream2 ==
  /\ impl = 2
  /\ localStream # NoStream
  /\ startRecording2

\* The browser's MediaRecorder stops by itself, with an error event, when a
\* track is added to or removed from the stream it records, and when every
\* track it records has ended.  No onerror or onstop handler is registered
\* before stopRecording: the recorder is inactive with recordingState left
\* as it is.
RecorderSourceChanged2 ==
  /\ impl = 2
  /\ mediaRecorderRef.state = "recording"
  /\ recorderSource.stream # NoStream
  /\ \/ streams[recorderSource.stream] # recorderSource.tracks
     \/ \A t \in recorderSource.tracks : ~tracks[t].live
  /\ mediaRecorderRef' = [mediaRecorderRef EXCEPT !.state = "inactive",
                                                  !.stopPending = "stop"]
  /\ UNCHANGED <<recordingState, isUnmounting, mimeType, abandoned, recordedChunks,
                 nextChunk, recordingCheckInterval, stopCall, recorderSource>>
  /\ UNCHANGED <<serverVars, filterVars, mediaVars, healthVars, clientVars>>

\* The second definition recording the stream it acquires and whose camera
\* it toggles (the only steps of it that stop or replace tracks).
SourceNext ==
  \/ initializeStream
  \/ \E c \in Cids : InitOk(c)
  \/ \E c \in Cids : InitFail(c)
  \/ toggleCamera2
  \/ \E c \in Cids : CameraOk(c)
  \/ \E c \in Cids : CameraFail(c)
  \/ startRecordingOfStream2
  \/ Timeslice2
  \/ stopRecording2
  \/ \E nonEmpty \in BOOLEAN : DeliverStop2(nonEmpty)
  \/ RecorderSourceChanged2

----------------------------------------------------------------------------
\* client/src/hooks/useWebRTC.ts, useAIInterview: the WebSocket of the
\* interview.  Only the connection is modelled, not the messages.
MaxSockets == 3
SocketIds == 1..MaxSockets
NoSocket == 0

ClientIdle ==
  /\ sockets = [k \in SocketIds |-> "none"]
  /\ socketRef = NoSocket
  /\ interviewActiveRef = FALSE
  /\ reconnectTimers = 0
  /\ hookUnmounted = FALSE

\* WebSocket.close(): the closing handshake begins; nothing on a socket that
\* is closing or closed.
close(socks, k) ==
  IF socks[k] \in {"CONNECTING", "OPEN"} THEN [socks EXCEPT ![k] = "CLOSING"] ELSE socks

\* new WebSocket(wsUrl)
NewSocket == CHOOSE k \in SocketIds :
               sockets[k] = "none" /\ \A j \in SocketIds : sockets[j] = "none" => k <= j

\* setupWebSocket(): a socket the ref holds that is open or connecting is
\* kept; one in another state is closed and dropped; then a new socket is
\* created and stored in the ref.  It does not test interviewActiveRef.
setupWebSocket ==
  IF socketRef # NoSocket /\ sockets[socketRef] \in {"OPEN", "CONNECTING"}
    THEN UNCHANGED <<sockets, socketRef>>
    ELSE /\ \E k \in SocketIds : sockets[k] = "none"
         /\ sockets' = [(IF socketRef # NoSocket THEN close(sockets, socketRef)
                                                 ELSE sockets)
                          EXCEPT ![NewSocket] = "CONNECTING"]
         /\ socketRef' = NewSocket

\* startInterview(), as far as the connection goes: the interview is active,
\* and without an open socket in the ref setupWebSocket() is called.
startInterview ==
  /\ ~hookUnmounted
  /\ interviewActiveRef' = TRUE
  /\ IF socketRef = NoSocket \/ sockets[socketRef] # "OPEN"
       THEN setupWebSocket
       ELSE UNCHANGED <<sockets, socketRef>>
  /\ UNCHANGED <<reconnectTimers, hookUnmounted>>
  /\ ClientFrame

\* The connection of a socket is established; onopen only logs.
SocketOpen(k) ==
  /\ sockets[k] = "CONNECTING"
  /\ sockets' = [sockets EXCEPT ![k] = "OPEN"]
  /\ UNCHANGED <<socketRef, interviewActiveRef, reconnectTimers, hookUnmounted>>
  /\ ClientFrame

\* The server starts the closing handshake of an open socket.
SocketClosing(k) ==
  /\ sockets[k] = "OPEN"
  /\ sockets' = [sockets EXCEPT ![k] = "CLOSING"]
  /\ UNCHANGED <<socketRef, interviewActiveRef, reconnectTimers, hookUnmounted>>
  /\ ClientFrame

\* The close event of a socket (closed, or failed to connect).  Its onclose
\* clears the ref, whatever socket the ref holds, and while the interview is
\* active sets the 3 s timer that calls setupWebSocket.
SocketClose(k) ==
  /\ sockets[k] \in {"CONNECTING", "OPEN", "CLOSING"}
  /\ sockets' = [sockets EXCEPT ![k] = "CLOSED"]
  /\ socketRef' = NoSocket
  /\ reconnectTimers' = IF interviewActiveRef THEN reconnectTimers + 1
                                              ELSE reconnectTimers
  /\ UNCHANGED <<interviewActiveRef, hookUnmounted>>
  /\ ClientFrame

\* A 3 s reconnect timer fires: setupWebSocket().
ReconnectTimer ==
  /\ reconnectTimers > 0
  /\ reconnectTimers' = reconnectTimers - 1
  /\ setupWebSocket
  /\ UNCHANGED <<interviewActiveRef, hookUnmounted>>
  /\ ClientFrame

\* endInterview(): the interview is no longer active; the socket of the ref
\* is closed and the ref cleared.
endInterview ==
  /\ ~hookUnmounted
  /\ interviewActiveRef' = FALSE
  /\ IF socketRef # NoSocket
       THEN /\ sockets' = close(sockets, socketRef)
            /\ socketRef' = NoSocket
       ELSE UNCHANGED <<sockets, socketRef>>
  /\ UNCHANGED <<reconnectTimers, hookUnmounted>>
  /\ ClientFrame

\* The cleanup of the hook's effect at unmount: only with a socket in the
\* ref is the interview marked inactive and the socket closed.
HookUnmount ==
  /\ ~hookUnmounted
  /\ hookUnmounted' = TRUE
  /\ IF socketRef # NoSocket
       THEN /\ interviewActiveRef' = FALSE
            /\ sockets' = close(sockets, socketRef)
       ELSE UNCHANGED <<interviewActiveRef, sockets>>
  /\ UNCHANGED <<socketRef, reconnectTimers>>
  /\ ClientFrame

ClientNext ==
  \/ startInterview
  \/ \E k \in SocketIds : SocketOpen(k)
  \/ \E k \in SocketIds : SocketClosing(k)
  \/ \E k \in SocketIds : SocketClose(k)
  \/ ReconnectTimer
  \/ endInterview
  \/ HookUnmount

----------------------------------------------------------------------------
\* The specifications: one part runs, the others stay as constructed.

InitServer == ServerInit /\ FilterIdle /\ RecIdle /\ MediaIdle /\ ClientIdle

SpecServer == InitServer /\ [][ServerNext]_vars

InitConn == ConnInit /\ FilterIdle /\ RecIdle /\ MediaIdle /\ ClientIdle

SpecConn == InitConn /\ [][ConnNext]_vars

InitFilter == ServerInit /\ FilterInit /\ RecIdle /\ MediaIdle /\ ClientIdle

SpecFilter == InitFilter /\ [][FilterNext]_vars

InitRec == ServerInit /\ FilterIdle /\ RecInit /\ MediaIdle /\ ClientIdle

SpecRec == InitRec /\ [][RecNext]_vars

\* The recording controller with its 10 s safety timer, which fires once
\* armed unless it is cleared.
InitRecLive == ServerInit /\ FilterIdle /\ RecInit /\ MediaIdle /\ ClientIdle

SpecRecLive == InitRecLive /\ [][RecNext]_vars /\ WF_vars(StopTimeout)

InitRec2 == ServerInit /\ FilterIdle /\ RecIdle /\ MediaIdle /\ ClientIdle
SpecRec2 == InitRec2 /\ [][Rec2Next]_vars

InitAcquire == ServerInit /\ FilterIdle /\ RecIdle /\ AcquireInit /\ ClientIdle

SpecAcquire == InitAcquire /\ [][AcquireNext]_vars

\* The first definition's acquisition and recovery together with its
\* toggles.
IndicatorNext ==
  \/ startLocalStream
  \/ \E c \in Cids : WaitTimeout(c)
  \/ \E c \in Cids : GumOk(c)
  \/ \E c \in Cids : GumFail(c)
  \/ \E t \in TrackIds, hidden \in BOOLEAN : TrackEnded(t, hidden)
  \/ \E t \in TrackIds : RecoveryTimer(t)
  \/ \E c \in Cids : ProbeOk(c)
  \/ \E c \in Cids : ProbeFail(c)
  \/ toggleMicrophone
  \/ toggleCamera

InitIndicator == ServerInit /\ FilterIdle /\ RecIdle /\ AcquireInit /\ ClientIdle

SpecIndicator == InitIndicator /\ [][IndicatorNext]_vars

InitClient == ServerInit /\ FilterIdle /\ RecIdle /\ MediaIdle /\ ClientIdle

SpecClient == InitClient /\ [][ClientNext]_vars

InitHealth == ServerInit /\ FilterIdle /\ RecIdle /\ HealthInit /\ ClientIdle

SpecHealth == InitHealth /\ [][HealthNext]_vars

InitSource == ServerInit /\ FilterIdle /\ RecIdle /\ MediaInit /\ impl = 2 /\ ClientIdle

SpecSource == InitSource /\ [][SourceNext]_vars

InitToggle == ServerInit /\ FilterIdle /\ RecIdle /\ MediaInit /\ ClientIdle

SpecToggle == InitToggle /\ [][ToggleNext]_vars

----------------------------------------------------------------------------
\* Claims about the session protocol (SpecServer).

IsReplyTo(r) == r.type \in {"AI_MESSAGE", "ERROR"}
TypingAt(sent, i, on) == sent[i].type = "TYPING_INDICATOR" /\ sent[i].x = on

\* C1 (pause enforcement): a user-message naming a session that is in the
\* table with isPaused = TRUE is answered with exactly the error reply
\* "Interview is paused"; the step changes no session object, leaves the
\* session table and the persisted messages alone and starts no continuation
\* (no typing indicator, persistence write or generation call follows).
C1_PauseEnforcement ==
  [][\A c \in Conns, sid \in Sids :
       (RecvUserMessage(c, sid) /\ sid \in activeSessions /\ sessionObj[sid].isPaused)
         => /\ lastDone' = NewHandler("USER", c, sid, 0, "done",
                                      <<Reply("ERROR", "Interview is paused")>>)
            /\ UNCHANGED <<sessionObj, activeSessions, dbMessages, handlers>>]_vars

\* C1 witness: a user-message was rejected for a paused session that already
\* holds a turn.
C1_Witness ==
  /\ lastDone.kind = "USER"
  /\ lastDone.sent = <<Reply("ERROR", "Interview is paused")>>
  /\ lastDone.sid \in activeSessions
  /\ sessionObj[lastDone.sid].isPaused
  /\ Len(sessionObj[lastDone.sid].conversation) > 0

\* C4 (protocol ordering), as claimed: in a completed user-message handler
\* that pushed typing, every assistant-message or error reply comes after
\* the typing{isTyping: true} push and before, or together with (sent in the
\* same run, next to), a typing{isTyping: false} push.
C4_ProtocolOrdering ==
  (lastDone.kind = "USER" /\ \E i \in 1..Len(lastDone.sent) : TypingAt(lastDone.sent, i, TRUE))
    => \A j \in 1..Len(lastDone.sent) :
         IsReplyTo(lastDone.sent[j])
           => /\ \E i \in 1..(j - 1) : TypingAt(lastDone.sent, i, TRUE)
              /\ \E k \in (j - 1)..Len(lastDone.sent) :
                   k >= 1 /\ TypingAt(lastDone.sent, k, FALSE)

\* C10 (GenerationFailure is absorbed), as claimed: a user-message whose
\* generation call failed is answered with an assistant-message and with no
\* error reply.
C10_GenerationFailureAbsorbed ==
  (lastDone.kind = "USER" /\ lastDone.gen = "fail")
    => /\ \E j \in 1..Len(lastDone.sent) : lastDone.sent[j].type = "AI_MESSAGE"
       /\ \A j \in 1..Len(lastDone.sent) : lastDone.sent[j].type # "ERROR"

\* The step is one of the end-session handler in slot h, taken before its
\* results are generated.
EndStepBeforeResults(h) ==
  /\ handlers[h].kind = "END"
  /\ handlers[h].pc \in {"end_getMessages", "end_getInterview", "end_generateResults"}
  /\ handlers'[h] # handlers[h]

\* C11 (result-generation failure is surfaced): no step of an end-session
\* handler up to and including the generation of the results changes the
\* session table, a session object, the persisted evaluations or an
\* interview record; when such a step ends the handler, the handler has sent
\* exactly one reply, the error "Failed to end interview" (no session-ended).
C11_EndFailureSurfaced ==
  [][\A h \in Hids :
       EndStepBeforeResults(h) =>
         /\ activeSessions' = activeSessions
         /\ sessionObj' = sessionObj
         /\ dbResults' = dbResults
         /\ interviews' = interviews
         /\ dbMessages' = dbMessages
         /\ handlers'[h].pc = "idle" =>
              lastDone'.sent = <<Reply("ERROR", "Failed to end interview")>>]_vars

\* C11 witness: generateInterviewResults rejected for a session that has a
\* conversation; the session is in the table, no evaluation is persisted and
\* the interview is in progress.
C11_Witness ==
  /\ lastDone.kind = "END" /\ lastDone.gen = "fail"
  /\ lastDone.sent = <<Reply("ERROR", "Failed to end interview")>>
  /\ lastDone.sid \in activeSessions
  /\ sessionObj[lastDone.sid].conversation # <<>>
  /\ lastDone.iid \notin dbResults
  /\ interviews[lastDone.iid] = "in_progress"

\* The step is the arrival of a user-message, pause, resume or end naming sid.
RecvForSession(sid) ==
  \E c \in Conns : \/ RecvUserMessage(c, sid) \/ RecvPause(c, sid)
                   \/ RecvResume(c, sid) \/ RecvEnd(c, sid)

\* C12 (SessionNotFound): a user-message, pause, resume or end naming a
\* session id that is not in the session table is answered at once with
\* exactly one reply, an error; no handler stays in flight for it (so no
\* persistence or generation call is awaited), no session is created or
\* changed and nothing is persisted.
C12_SessionNotFound ==
  [][\A sid \in Sids \ activeSessions :
       RecvForSession(sid) =>
         /\ lastDone'.sid = sid /\ lastDone'.pc = "done"
         /\ Len(lastDone'.sent) = 1 /\ lastDone'.sent[1].type = "ERROR"
         /\ handlers' = handlers
         /\ activeSessions' = activeSessions
         /\ sessionObj' = sessionObj
         /\ nextSid' = nextSid
         /\ interviews' = interviews
         /\ dbMessages' = dbMessages
         /\ dbResults' = dbResults]_vars

\* C12 witness: a pause naming an unknown session was answered with the error
\* while another session is in the table.
C12_Witness ==
  /\ lastDone.kind = "PAUSE"
  /\ lastDone.sid \notin activeSessions
  /\ Len(lastDone.sent) = 1 /\ lastDone.sent[1].type = "ERROR"
  /\ activeSessions # {}

\* C13 (unknown type, malformed payload): a message whose type is none of
\* the five operations, or is missing, is answered with "Unknown message
\* type", and a payload that is not JSON with "Failed to process message";
\* neither changes the session table or a session.
C13_UnknownAndMalformed ==
  [][\A c \in Conns :
       /\ (\E ty \in OtherTypes : RecvUnknown(c, ty)) =>
            /\ lastDone'.sent = <<Reply("ERROR", "Unknown message type")>>
            /\ activeSessions' = activeSessions /\ sessionObj' = sessionObj
       /\ RecvMalformed(c) =>
            /\ lastDone'.sent = <<Reply("ERROR", "Failed to process message")>>
            /\ activeSessions' = activeSessions /\ sessionObj' = sessionObj]_vars

\* C14 (start-session without an interview record), as claimed: when the
\* interview record is created the session is minted and stored unpaused and
\* empty and session-created is the first reply; when creating it fails no
\* session is created and the reply is an error; and when the handler is done
\* after the welcome was due, the client has received session-created and
\* then exactly one assistant-message, and that welcome turn has been
\* persisted and appended to the conversation.
C14_StartSession ==
  [][\A h \in Hids :
       /\ StartCreateInterviewOk(h) =>
            /\ \E iid \in Iids : interviews[iid] = "none" /\ interviews'[iid] = "in_progress"
            /\ activeSessions' = activeSessions \cup {nextSid}
            /\ nextSid \notin activeSessions
            /\ ~sessionObj'[nextSid].isPaused
            /\ sessionObj'[nextSid].conversation = <<>>
            /\ handlers'[h].sent = <<Reply("SESSION_CREATED", nextSid)>>
       /\ StartCreateInterviewFail(h) =>
            /\ activeSessions' = activeSessions /\ sessionObj' = sessionObj
            /\ lastDone'.sent = <<Reply("ERROR", "Failed to create interview")>>
       /\ (WelcomePersistOk(h) \/ WelcomePersistFail(h)) =>
            /\ lastDone'.sent = <<Reply("SESSION_CREATED", handlers[h].sid),
                                  sendTypingIndicator(TRUE), sendTypingIndicator(FALSE),
                                  Reply("AI_MESSAGE", "welcome")>>
            /\ dbMessages'[handlers[h].iid] = Append(dbMessages[handlers[h].iid], "ai")
            /\ sessionObj'[handlers[h].sid].conversation =
                 Append(sessionObj[handlers[h].sid].conversation, "welcome")]_vars

\* The step is the arrival of a message on connection c.
Recv(c) ==
  \/ RecvMalformed(c)
  \/ \E ty \in OtherTypes : RecvUnknown(c, ty)
  \/ RecvStartNew(c)
  \/ \E iid \in Iids : RecvStartExisting(c, iid)
  \/ \E sid \in Sids : \/ RecvUserMessage(c, sid) \/ RecvPause(c, sid)
                        \/ RecvResume(c, sid) \/ RecvEnd(c, sid)

\* C18 (per-connection FIFO), as claimed: when the handling of a message of
\* a connection begins, no handler of an earlier message of that connection
\* is still awaiting a persistence or generation call.
C18_PerConnectionFIFO ==
  [][\A c \in Conns :
       Recv(c) => \A h \in Hids : handlers[h].conn = c => handlers[h].pc = "idle"]_vars

\* C19 (no mid-flight cancellation): while the session of a user-message
\* handler is paused, the completion of its generation call still sends the
\* assistant-message, the persisted assistant turn is still appended to the
\* conversation of that session, isPaused stays true in both steps, and a
\* user-message arriving for the session is rejected with "Interview is
\* paused" without a handler being started.
C19_NoMidFlightCancellation ==
  [][/\ \A h \in Hids :
          (handlers[h].kind = "USER" /\ sessionObj[handlers[h].sid].isPaused) =>
            /\ UserGenerateOk(h) =>
                 /\ handlers'[h].pc = "um_createAI"
                 /\ handlers'[h].sent[Len(handlers'[h].sent)].type = "AI_MESSAGE"
                 /\ sessionObj'[handlers[h].sid].isPaused
            /\ UserPersistAIOk(h) =>
                 /\ sessionObj'[handlers[h].sid].conversation =
                      Append(sessionObj[handlers[h].sid].conversation, "question")
                 /\ sessionObj'[handlers[h].sid].isPaused
     /\ \A c \in Conns, sid \in activeSessions :
          (sessionObj[sid].isPaused /\ RecvUserMessage(c, sid)) =>
            /\ lastDone'.sent = <<Reply("ERROR", "Interview is paused")>>
            /\ handlers' = handlers
            /\ sessionObj' = sessionObj]_vars

\* C19 witness: a user-message handler is done whose generation call
\* succeeded; its session is paused and the assistant turn is the last of the
\* conversation.
C19_Witness ==
  /\ lastDone.kind = "USER" /\ lastDone.gen = "ok"
  /\ \E j \in 1..Len(lastDone.sent) : lastDone.sent[j].type = "AI_MESSAGE"
  /\ lastDone.sid \in activeSessions
  /\ sessionObj[lastDone.sid].isPaused
  /\ sessionObj[lastDone.sid].conversation = <<"user", "question">>

\* C20 (pause and resume are flag flips): a pause or resume naming a session
\* of the table sets isPaused of that session to true or false, whatever it
\* was, and sends exactly one acknowledgment; the conversation and interview
\* id of the session, every other session, the table, the persisted turns,
\* the interviews and the handlers in flight are unchanged.
C20_PauseResumeFlagFlips ==
  [][\A c \in Conns, sid \in activeSessions :
       /\ RecvPause(c, sid) =>
            /\ sessionObj' = [sessionObj EXCEPT ![sid].isPaused = TRUE]
            /\ Len(lastDone'.sent) = 1 /\ lastDone'.sent[1].type = "INTERVIEW_PAUSED"
       /\ RecvResume(c, sid) =>
            /\ sessionObj' = [sessionObj EXCEPT ![sid].isPaused = FALSE]
            /\ Len(lastDone'.sent) = 1 /\ lastDone'.sent[1].type = "INTERVIEW_RESUMED"
       /\ (RecvPause(c, sid) \/ RecvResume(c, sid)) =>
            /\ activeSessions' = activeSessions
            /\ dbMessages' = dbMessages
            /\ dbResults' = dbResults
            /\ interviews' = interviews
            /\ handlers' = handlers]_vars

\* C20 witness: a session that holds the welcome turn was paused and is
\* resumed: it is active again and holds the turn.
C20_Witness ==
  /\ lastDone.kind = "RESUME"
  /\ Len(lastDone.sent) = 1 /\ lastDone.sent[1].type = "INTERVIEW_RESUMED"
  /\ lastDone.sid \in activeSessions
  /\ ~sessionObj[lastDone.sid].isPaused
  /\ sessionObj[lastDone.sid].conversation = <<"welcome">>
  /\ received = MaxInbound

\* C21 (successful end-session ordering): a step of an end-session handler
\* removes its session only as its last step, when the evaluation of the
\* interview is persisted and the interview is marked completed; the handler
\* that sends session-ended has removed the session and sent nothing else.
C21_EndOrdering ==
  [][\A h \in Hids :
       (handlers[h].kind = "END" /\ handlers'[h] # handlers[h]) =>
         /\ (handlers[h].sid \in activeSessions /\ handlers[h].sid \notin activeSessions') =>
              /\ handlers[h].pc = "end_updateStatus"
              /\ handlers[h].iid \in dbResults
              /\ interviews'[handlers[h].iid] = "completed"
              /\ handlers'[h].pc = "idle"
              /\ Len(lastDone'.sent) = 1 /\ lastDone'.sent[1].type = "INTERVIEW_ENDED"
         /\ (handlers'[h].pc = "idle"
               /\ \E j \in 1..Len(lastDone'.sent) : lastDone'.sent[j].type = "INTERVIEW_ENDED") =>
              /\ Len(lastDone'.sent) = 1
              /\ handlers[h].sid \notin activeSessions'
              /\ handlers[h].iid \in dbResults'
              /\ interviews'[handlers[h].iid] = "completed"]_vars

\* C21 witness: an end-session of a session that holds a turn has been
\* acknowledged: the session is removed, the evaluation persisted, the
\* interview completed.
C21_Witness ==
  /\ lastDone.kind = "END"
  /\ Len(lastDone.sent) = 1 /\ lastDone.sent[1].type = "INTERVIEW_ENDED"
  /\ lastDone.sid \notin activeSessions
  /\ sessionObj[lastDone.sid].conversation # <<>>
  /\ lastDone.iid \in dbResults
  /\ interviews[lastDone.iid] = "completed"

\* Session sid has been minted and removed from the table (ids are not reused).
Ended(sid) == sid < nextSid /\ sid \notin activeSessions

\* C22 (ended is terminal), as claimed: a session that end-session has
\* removed from the table never reappears in it and its conversation is
\* never changed again.
C22_EndedIsTerminal ==
  [][\A sid \in Sids :
       Ended(sid) => /\ sid \notin activeSessions'
                     /\ sessionObj'[sid] = sessionObj[sid]]_vars

\* C29 (typing is always cleared), as claimed: in what a completed
\* user-message or start-session handler has sent, every typing{isTyping:
\* true} push is followed by a typing{isTyping: false} push.
C29_TypingCleared ==
  lastDone.kind \in {"USER", "START"} =>
    \A i \in 1..Len(lastDone.sent) :
      TypingAt(lastDone.sent, i, TRUE) =>
        \E j \in (i + 1)..Len(lastDone.sent) : TypingAt(lastDone.sent, j, FALSE)

\* C35 (failed start-session), as claimed: a start-session answered with
\* "Failed to start interview" has sent no SESSION_CREATED and has left no
\* session in the table, and every session in the table names an interview
\* that exists in storage.
C35_FailedStartLeavesNoSession ==
  /\ (/\ lastDone.kind = "START"
      /\ \E i \in 1..Len(lastDone.sent) :
           lastDone.sent[i].type = "ERROR" /\ lastDone.sent[i].x = "Failed to start interview") =>
       /\ \A i \in 1..Len(lastDone.sent) : lastDone.sent[i].type # "SESSION_CREATED"
       /\ lastDone.sid \notin activeSessions
  /\ \A sid \in activeSessions : interviews[sessionObj[sid].interviewId] # "none"

\* C36 (welcome turn first), as claimed: the first turn of every session's
\* conversation is the welcome turn.
C36_WelcomeFirst ==
  \A sid \in Sids :
    sessionObj[sid].conversation # <<>> => sessionObj[sid].conversation[1] = "welcome"

\* The number of elements of sequence seq that are in set S.
CountIn(seq, S) == Cardinality({i \in 1..Len(seq) : seq[i] \in S})

\* The turns with a content in S in the conversations of the sessions in SS
\* that belong to interview iid.
RECURSIVE TurnsFor(_, _, _)
TurnsFor(iid, S, SS) ==
  IF SS = {} THEN 0
  ELSE LET sid == CHOOSE x \in SS : TRUE
       IN  (IF sessionObj[sid].interviewId = iid
              THEN CountIn(sessionObj[sid].conversation, S) ELSE 0)
           + TurnsFor(iid, S, SS \ {sid})

\* A step in which a persistence write of a turn is rejected.
PersistFailStep ==
  \E h \in Hids : UserPersistFail(h) \/ UserPersistAIFail(h) \/ WelcomePersistFail(h)

\* C37 (persist before append), as claimed: after every step that changes a
\* conversation or the persisted messages, the conversations hold no more
\* user turns, and no more assistant turns, than were persisted for their
\* interview; a step in which a write is rejected changes no conversation;
\* and a step changes a conversation only by appending one turn to it.
C37_PersistBeforeAppend ==
  [][(sessionObj' # sessionObj \/ dbMessages' # dbMessages) =>
       /\ \A iid \in Iids :
            /\ TurnsFor(iid, {"user"}, Sids)' <= CountIn(dbMessages'[iid], {"user"})
            /\ TurnsFor(iid, {"welcome", "question"}, Sids)' <=
                 CountIn(dbMessages'[iid], {"ai"})
       /\ sessionObj' # sessionObj => ~PersistFailStep
       /\ \A sid \in Sids :
            LET old == sessionObj[sid].conversation
                new == sessionObj'[sid].conversation
            IN  new # old => Len(new) = Len(old) + 1 /\ SubSeq(new, 1, Len(old)) = old]_vars

\* C37 witness: a user-message of a session that holds turns has ended with
\* its write rejected.
C37_Witness ==
  /\ lastDone.kind = "USER"
  /\ lastDone.iid # 0
  /\ interviews[lastDone.iid] # "none"
  /\ Len(lastDone.sent) = 1
  /\ lastDone.sent[1].type = "ERROR"
  /\ lastDone.sent[1].x = "Failed to process message"
  /\ Len(sessionObj[lastDone.sid].conversation) >= 2

----------------------------------------------------------------------------
\* Claims about the sockets (SpecConn).

\* C27 (a closing connection leaves the sessions alone): the close of a
\* socket changes neither the session table nor a session object, and a step
\* that removes a session from the table is the last step of a successful
\* end-session for it.
C27_CloseKeepsSessions ==
  [][/\ \A c \in Conns :
          ConnClose(c) => activeSessions' = activeSessions /\ sessionObj' = sessionObj
     /\ \A sid \in activeSessions :
          sid \notin activeSessions' =>
            \E h \in Hids : EndUpdateStatus(h) /\ handlers[h].sid = sid]_vars

\* C27 witness: every socket is closed and a paused session that holds a
\* turn is in the table.
C27_Witness ==
  /\ conns = {}
  /\ \E sid \in activeSessions :
       sessionObj[sid].isPaused /\ sessionObj[sid].conversation # <<>>

\* C28 (one session, one connection), as claimed: the handlers in flight
\* for one session all serve the same connection.
C28_OneConnectionPerSession ==
  \A h1, h2 \in Hids :
    (handlers[h1].pc # "idle" /\ handlers[h2].pc # "idle"
       /\ handlers[h1].sid # 0 /\ handlers[h1].sid = handlers[h2].sid)
      => handlers[h1].conn = handlers[h2].conn

----------------------------------------------------------------------------
\* Claims about the history validation (SpecFilter).

\* The turns forwarded: the payload after the two preamble messages.
Forwarded == SubSeq(fMessages, 3, Len(fMessages))

\* A turn whose content is present, non-null and, coerced to a string, not
\* empty or white space only.
HasContent(turn) ==
  /\ turn # NullTurn
  /\ ~IsNullish(turn.content)
  /\ Trim(String(turn.content).v) # <<>>

RECURSIVE ContentsOf(_)
ContentsOf(turns) ==
  IF turns = <<>> THEN <<>>
  ELSE <<String(Head(turns).content)>> \o ContentsOf(Tail(turns))

\* C5 (history filtering), as claimed: the forwarded turns are exactly the
\* input turns that have content, in their order, each with its content
\* coerced to a string.
C5_HistoryFiltering ==
  fpc = "sent" =>
    ContentsOf(Forwarded) = ContentsOf(SelectSeq(fConversation, HasContent))

----------------------------------------------------------------------------
\* Claims about the recording controller (SpecRec).

RecorderStarted ==
  /\ mediaRecorderRef'.state = "recording"
  /\ mediaRecorderRef'.startPending

\* C3 (fault tolerance), as claimed: when the restart delay of the current
\* recorder's unexpected stop elapses while the logical state is "recording"
\* and the component is not unmounting (the recorder stopped by itself, no
\* error before it), recording is restarted.
C3_FaultTolerance ==
  [][\A h \in Acting :
       (RestartTimerOf(h) /\ h.isCurrent /\ recordingState = "recording"
          /\ ~isUnmounting /\ ~h.rec.errorTimer)
         => RecorderStarted]_vars

\* C15 (null only without chunks), as claimed: a stop call that has
\* resolved gave null if no chunk had been collected before the call or
\* while it was pending, and a non-null artifact otherwise.
C15_NullOnlyWithoutChunks ==
  stopCall.status = "resolved" =>
    (stopCall.artifact.isNull <=> stopCall.appended = <<>>)

\* stopRecording has been called and startRecording has not run since: the
\* recorder referenced is still the one the stop call put its handler on.
StopInForce ==
  /\ stopCall.status # "none"
  /\ mediaRecorderRef.onstop = "resolve"

\* C16 (stop disables auto-restart), as claimed: after stopRecording and
\* before the next start, neither a restart timer (also one set before the
\* stop), nor an error timer, nor the liveness check starts a recorder.
C16_StopDisablesRestart ==
  [][(StopInForce /\ (RestartTimer \/ ErrorTimer \/ RecordingCheck))
       => ~(RecorderStarted /\ mediaRecorderRef'.onstop = "restart")]_vars

\* The recorders in state "recording": each of them appends its chunks to
\* recordedChunksRef.
ActiveRecorders ==
  (IF mediaRecorderRef.state = "recording" THEN 1 ELSE 0)
    + BagCardinality([a \in {x \in BagToSet(abandoned) : x.state = "recording"}
                        |-> abandoned[a]])

\* C17 (single recorder instance), as claimed: at most one recorder is
\* active and able to append chunks.
C17_SingleRecorder == ActiveRecorders <= 1

\* The current recorder is missing, or inactive with no event or timer of
\* its own left to come, while the check interval is set.
SilentlyInactive ==
  /\ recordingCheckInterval # "none"
  /\ mediaRecorderRef \in {NoRecorder, SpentRecorder}

\* C33 (recorder liveness check), as claimed: while recordingState is
\* "recording" and the recorder is silently inactive, the interval that is
\* set is one whose callback restarts the recording; and the check restarts
\* a recording only while recordingState is "recording".
C33_LivenessCheck ==
  [][/\ (recordingState = "recording" /\ SilentlyInactive) =>
          recordingCheckInterval = "recording"
     /\ RecordingCheck => recordingState = "recording"]_vars

\* C34: stopRecording() always terminates.  Its promise is never rejected;
\* the step that resolves it leaves recordingState "inactive" and is the stop
\* acknowledgment, the 10 s timeout or one of the immediate paths (no
\* recorder, recorder already inactive, stop() throwing); a resolved promise
\* changes only when stopRecording() is called again; and a pending promise
\* is eventually resolved.
StopPaths == {"norecorder", "inactive", "error", "onstop", "timeout"}

C38_IndependentRecordings ==
  [][(/\ startRecording
      /\ recordingState = "inactive"
      /\ stopCall.status = "resolved"
      /\ stopCall.path \in {"onstop", "timeout"}) => recordedChunks' = <<>>]_vars

----------------------------------------------------------------------------
\* Claims about the media stream (SpecToggle, SpecAcquire).

\* C6 (idempotent toggles): for the current stream and either kind, two
\* toggles in a row leave the enabled flag of every track of that kind and
\* the muted / camera-off flags as they were; under both definitions.
C6_IdempotentToggles ==
  \A kind \in Kinds :
    localStream # NoStream =>
      LET twice == Toggled(Toggled(MediaState, kind), kind)
      IN /\ \A t \in TracksOf(streams, localStream, kind) :
              twice.tracks[t].enabled = tracks[t].enabled
         /\ twice.isMicMuted = isMicMuted
         /\ twice.isCameraOff = isCameraOff

\* C6 witness: a stream of two tracks after one toggle of each kind (muted,
\* camera off, both tracks disabled), from where the second toggle is taken.
C6_Witness ==
  /\ localStream # NoStream
  /\ isMicMuted /\ isCameraOff
  /\ TracksOf(streams, localStream, "audio") # {}
  /\ TracksOf(streams, localStream, "video") # {}
  /\ \A t \in streams[localStream] : tracks[t].live /\ ~tracks[t].enabled

ToggleStep(kind) ==
  IF kind = "audio" THEN toggleMicrophone \/ toggleMicrophone2
                    ELSE toggleCamera \/ toggleCamera2

\* C7 (toggle frame), as claimed: a toggle adds, removes, stops or replaces
\* no track, leaves the tracks of the other kind alone and changes neither
\* the current stream (state and ref) nor the video element's source.
C7_ToggleFrame ==
  [][\A kind \in Kinds :
       ToggleStep(kind) =>
         /\ streams' = streams
         /\ \A t \in TrackIds : tracks'[t].live = tracks[t].live
         /\ \A t \in TrackIds : t[2] # kind => tracks'[t] = tracks[t]
         /\ localStream' = localStream
         /\ streamRef' = streamRef
         /\ srcObject' = srcObject]_vars

AllFailed(tried) == \A i \in 1..Len(tried) : ~tried[i].ok

InFlight == {c \in Cids : calls[c].pc \in {"ideal", "minimal", "audioOnly"}}

\* C9 (single acquisition in flight), as claimed: at no time are two tiered
\* acquisitions in flight.
C9_SingleAcquisition == Cardinality(InFlight) <= 1

\* C24 (only the release stops tracks), as claimed: a step in which a live
\* track ends is the browser ending it, the release, or the health monitor's
\* recovery; no toggle, acquisition or handler stops a live track.
C24_OnlyReleaseStopsTracks ==
  [][(\E t \in TrackIds : tracks[t].live /\ ~tracks'[t].live) =>
       \/ stopAllMediaTracks
       \/ \E s \in HealthStreams : HealthRecovery(s)
       \/ \E t \in TrackIds, hidden \in BOOLEAN : TrackEnded(t, hidden)]_vars

C39_IndicatorsAgree ==
  localStream \in StreamIds =>
    /\ TracksOf(streams, localStream, "audio") # {} =>
         (isMicMuted <=>
            \A t \in TracksOf(streams, localStream, "audio") : ~tracks[t].enabled)
    /\ TracksOf(streams, localStream, "video") # {} =>
         (isCameraOff <=>
            \A t \in TracksOf(streams, localStream, "video") : ~tracks[t].enabled)

----------------------------------------------------------------------------
\* Claims about the health monitor, the release and the unmount (SpecHealth).

\* The streams the hook holds as current, and the clones it took of them.
OwnedStreams ==
  LET cur == {localStream, streamRef} \ {NoStream}
  IN  cur \cup {BackupOf(st) : st \in cur \cap StreamIds}

\* C23 (release), as claimed: when stopAllMediaTracks returns, no track of
\* the current stream or of a clone taken of it is live, the video element
\* has no source and the stream ref is empty.
C23_ReleaseEndsEveryTrack ==
  [][stopAllMediaTracks =>
       /\ \A st \in OwnedStreams : LiveTracks(st)' = {}
       /\ srcObject' = NoStream
       /\ streamRef' = NoStream]_vars

\* A step of the health monitor: the check, its 1 s recovery callback or
\* the continuation of that callback.
HealthStep ==
  \/ checkStreamHealth
  \/ \E s \in HealthStreams : HealthRecovery(s)
  \/ \E c \in Cids : HealthRefresh(c)

\* C30 (health check during an acquisition), as claimed: while a tiered
\* acquisition is in flight no step of the health monitor re-attaches the
\* video element, switches to the backup clone, stops a track, clears the
\* stream ref or starts an acquisition.
C30_HealthNoOpWhileAcquiring ==
  [][(InFlight # {} /\ HealthStep) =>
       /\ UNCHANGED <<srcObject, localStream, streamRef, tracks, cloneEnded>>
       /\ \A c \in Cids : calls'[c].pc \in {"refresh", "ideal"} => calls'[c] = calls[c]]_vars

\* C25 (teardown), as claimed: the unmount clears the recorder-liveness
\* interval (the health check does not run while unmounting), stops a
\* recording recorder and every track of the current stream; after it no
\* step of a timer or of a request in flight stops or replaces a stream,
\* re-attaches the video element or starts or continues an acquisition (the
\* browser ending a track and a call made by the component are not such
\* steps); and the unmounting flag stays set.
C25_Teardown ==
  [][/\ Unmount =>
          /\ recordingCheckInterval' = "none"
          /\ mediaRecorderRef'.state # "recording"
          /\ \A st \in {localStream, streamRef} : LiveTracks(st)' = {}
     /\ (/\ isUnmounting
         /\ ~(\E t \in TrackIds, hidden \in BOOLEAN : TrackEnded(t, hidden))
         /\ ~startLocalStream
         /\ ~stopAllMediaTracks) =>
          /\ isUnmounting'
          /\ ~checkStreamHealth
          /\ UNCHANGED <<tracks, cloneEnded, streams, localStream, streamRef, srcObject>>
          /\ \A c \in Cids : calls'[c].pc # "idle" => calls'[c] = calls[c]]_vars

\* C31 (escalation of the health check), as claimed: while the component
\* is mounted, the check and its
\* recovery callback act only when the current stream has no live, enabled
\* video track; the check re-attaches the current stream to the video
\* element before anything else; the callback switches to the backup clone
\* or acquires only when the stream has no live video track, and it starts
\* an acquisition only when there is no backup clone with a live, enabled
\* video track.
C31_EscalationOrder ==
  [][/\ checkStreamHealth =>
          /\ healthTimers' # healthTimers => srcObject' = localStream
          /\ <<srcObject, healthTimers>>' # <<srcObject, healthTimers>> =>
                ~HasActiveVideo(localStream)
     /\ \A s \in HealthStreams :
          (/\ HealthRecovery(s)
           /\ ~isUnmounting
           /\ <<localStream, streamRef, srcObject, tracks, calls>>' #
                <<localStream, streamRef, srcObject, tracks, calls>>) =>
             /\ ~HasActiveVideo(localStream)
             /\ ~HasLiveVideo(localStream)
             /\ calls' # calls =>
                   (streamRef = NoStream \/ ~HasActiveVideo(BackupOf(streamRef)))]_vars

----------------------------------------------------------------------------
\* Claims about the recorder and the stream it records (SpecSource).

\* C26 (protected clone), as claimed: a recorder is only ever given a clone,
\* never a stream the hook acquired; no recorder stops because the stream it
\* records was changed; and a step that is not one of the controller's
\* leaves recordingState, the recorder and the chunks as they are.
C26_ProtectedClone ==
  [][/\ recorderSource' # recorderSource => recorderSource'.stream \notin StreamIds
     /\ ~RecorderSourceChanged2
     /\ (\/ toggleCamera2
         \/ \E c \in Cids : CameraOk(c) \/ InitOk(c)) =>
          UNCHANGED <<recordingState, mediaRecorderRef, recordedChunks>>]_vars

----------------------------------------------------------------------------
\* Claims about the connection of the client (SpecClient).

\* The sockets the hook created that are open or connecting.
LiveSockets == {k \in SocketIds : sockets[k] \in {"CONNECTING", "OPEN"}}

\* C40 (one connection), as claimed: at most one WebSocket the hook created
\* is open or connecting, and the ref holds it; and no step creates a
\* WebSocket after the unmount, or after endInterview() while no
\* startInterview() has made the interview active again.
C40_OneConnection ==
  /\ [](/\ Cardinality(LiveSockets) <= 1
        /\ \A k \in LiveSockets : socketRef = k)
  /\ [][(\E k \in SocketIds : sockets[k] = "none" /\ sockets'[k] # "none") =>
          (~hookUnmounted /\ interviewActiveRef')]_vars

====
